---- MODULE Spec2Model ----
(***************************************************************************)
(* A model of DendroPy's taxon namespace (datamodel/taxonmodel.py) and of  *)
(* the NEXML tree, state-alphabet, character-matrix and annotation readers *)
(* and writer (dataio/nexml.py).                                           *)
(*                                                                         *)
(* Each subsystem has its own specification over the shared variable       *)
(* list; the variables of the other subsystems stay at their initial       *)
(* values:                                                                 *)
(*   SpecNS        one TaxonNamespace and the Taxon objects handed to it   *)
(*   SpecShared    two TaxonNamespace objects and the constructor forms    *)
(*   SpecQuery     one TaxonNamespace under reordering and index queries   *)
(*   SpecLookup    one TaxonNamespace under look-ups by label              *)
(*   SpecBits      one TaxonNamespace under bitmask conversions            *)
(*   SpecCopy      a TaxonNamespace and its copy TaxonNamespace(other)     *)
(*   SpecTree      the NEXML build of one tree from node and edge records  *)
(*   SpecAlphabet  a state alphabet parsed, written and parsed again       *)
(*   SpecChars     a characters block written or read, and then parsed     *)
(*   SpecMeta      the <meta> elements of one annotated element parsed     *)
(*   SpecMetaWrite the same, parsed and then written by NexmlWriter        *)
(*   SpecRegistry  one TaxonNamespace under every registry-changing call   *)
(*   SpecSeq       the sequence rows of a characters block of a document   *)
(*   SpecRace      two threads calling add_taxon on a shared namespace     *)
(***************************************************************************)
EXTENDS Integers, Sequences, FiniteSets, TLC

(***************************************************************************)
(* Bounds                                                                  *)
(***************************************************************************)
\* number of Taxon objects that can be created
MaxTaxa == 2
\* cap on _current_accession_count (guards the registering operations)
MaxAccessions == 3
\* longest iterable handed to the TaxonNamespace constructor
MaxIterable == 1
\* accession indices per namespace where a namespace and its copy are explored
MaxCopyAccessions == 2
\* most <meta> elements below one annotated element, at any depth
MaxMeta == 3
\* most <node> and <edge> records in one <tree> element
MaxNodes == 3
MaxEdges == 2
\* most children of a state set element
MaxMembers == 2
\* most rows and most columns of a character matrix
MaxRows == 2
MaxChars == 2
\* <row> elements of a block in the specification of the sequence rows
MaxSeqRows == 1

(***************************************************************************)
(* Generic helpers for Python dicts and lists                              *)
(***************************************************************************)
\* the empty dict {}
EmptyMap == << >>
\* d[k] = v
MapSet(d, k, v) == [x \in (DOMAIN d) \cup {k} |-> IF x = k THEN v ELSE d[x]]
\* d.pop(k, NoValue): the dict without k
MapPop(d, k) == [x \in (DOMAIN d) \ {k} |-> d[x]]
\* the elements of a list
Range(s) == {s[i] : i \in 1..Len(s)}
\* list.remove(x) repeated until x is gone (every occurrence, order kept)
RECURSIVE ListRemoveAll(_, _)
ListRemoveAll(s, x) ==
    IF s = << >> THEN << >>
    ELSE IF Head(s) = x THEN ListRemoveAll(Tail(s), x)
         ELSE << Head(s) >> \o ListRemoveAll(Tail(s), x)
\* 1 << i
Shl1(i) == 2 ^ i
\* a | b on non-negative integers
RECURSIVE BitOr(_, _)
BitOr(a, b) ==
    IF a = 0 THEN b
    ELSE IF b = 0 THEN a
    ELSE (IF a % 2 = 1 \/ b % 2 = 1 THEN 1 ELSE 0) + 2 * BitOr(a \div 2, b \div 2)
\* all orders in which a dict can hand out the members of S
Orders(S) == {f \in [1..Cardinality(S) -> S] :
                 \A i, j \in 1..Cardinality(S) : i # j => f[i] # f[j]}

(***************************************************************************)
(* Taxon objects and labels                                                *)
(***************************************************************************)
TaxonIds == 1..MaxTaxa
Labels == {"a", "A", "b"}
NoLabel == "<no such object>"
\* Python None where a Taxon is expected / as a returned value
NoTaxon == 0
NoValue == 0 - 1
NoError == "ok"
\* str(label).lower()
lower(l) == IF l = "A" THEN "a" ELSE l

NSIds == {1, 2}

VARIABLES
    \* Taxon.label of every Taxon object created so far (NoLabel: not created)
    taxonLabel,
    \* the TaxonNamespace objects that have been constructed
    constructed,
    \* their fields: NSIds -> record (a placeholder until constructed)
    namespaces,
    \* the last call and its outcome:
    \* [op, ns, arg, label, case_sensitive, taxa, index, err, val]
    ret,
    \* history: per namespace, the (taxon, index) registrations in order
    accessionLog,
    \* per namespace and container attribute (the list _taxa and the three
    \* dicts), the namespace whose constructor made the object bound to it
    containers

nsVars == << taxonLabel, constructed, namespaces, ret, accessionLog, containers >>

\* The NEXML tree build (_NexmlTreesParser.parse_trees), one <tree> element
VARIABLES
    \* position in parse_trees: "start", "nodes", "attach", "root", "done", "failed"
    pc,
    \* the <node> records read: ids 1..nodeCount
    nodeCount,
    \* the `otu` attribute of each <node> record, NoOtu when absent
    nodeOtus,
    \* the <rootedge> record of the tree element: [present, target]
    rootedge,
    \* the <edge> records read, in document order: [source, target], 0 = no attribute
    edgeRecords,
    \* the Node objects by id: [parent_node, child_nodes, edge]
    nodes,
    \* the edges.values() already handled by the attach loop
    attached,
    \* the loop variable `edge` (0: never bound)
    edge,
    \* treeobj.seed_node
    seed_node,
    \* the trees appended to tree_list / yielded to the caller
    tree_list,
    yielded,
    \* the exception that ended the build
    treeError

treeVars == << pc, nodeCount, nodeOtus, rootedge, edgeRecords, nodes, attached,
               edge, seed_node, tree_list, yielded, treeError >>

\* The state alphabet of a characters block: parsed, written, parsed again
VARIABLES
    \* position: "start", "read", "parsed", "written", "reparsed", "failed"
    apc,
    \* the children of the <states> element handed to parse_state_alphabet
    nxstates,
    \* the StateAlphabet parsed from nxstates
    state_alphabet,
    \* the children of the <states> element the writer emits for state_alphabet
    state_alphabet_parts,
    \* the StateAlphabet parsed from state_alphabet_parts
    reparsed_alphabet,
    \* the error that ended the parse, NoError otherwise
    alphabetError

alphabetVars == << apc, nxstates, state_alphabet, state_alphabet_parts,
                   reparsed_alphabet, alphabetError >>

\* A characters block: written by write_char_matrices or read as a document,
\* then parsed by parse_char_matrix
VARIABLES
    \* position: "start", "format", "rows", "done", "failed"
    cpc,
    \* where the block comes from: "none", "document" or "writer"
    source,
    \* the class of the taxon set that the dataset hands to the parser
    taxon_set_kind,
    \* the matrix handed to the writer (taxon -> row of states)
    original,
    \* the suffix of xsi:type, "Seqs" or "Cells"
    nxchartype,
    \* the <char> elements of <format>: the alphabet id of each column
    nxformat,
    \* the <row> elements the writer emitted and the parser has not yet read
    nxrows,
    \* the <row> the row loop handled last
    nxrow,
    \* the <row> elements parsed so far
    rowCount,
    \* the CharacterMatrix being parsed
    char_matrix,
    \* dataset.char_matrices
    char_matrices,
    \* the error that ended the parse
    charError

charVars == << cpc, source, taxon_set_kind, original, nxchartype, nxformat,
               nxrows, nxrow, rowCount, char_matrix, char_matrices, charError >>

VARIABLES
    \* position of the annotation parse: "start", "read", "parsed", "written"
    mpc,
    \* the <meta> elements below the annotated element, in document order:
    \* [n, parent, attrib]; parent 0 is the annotated element itself
    nxmeta,
    \* the Annotation objects in creation order: [owner, elem, name_prefix,
    \* name, value, datatype_hint, namespace]; owner 0 is the host entity, owner k > 0 the k-th
    \* Annotation object
    annotations,
    metaError,
    \* the <meta> elements the writer put into the body, in output order:
    \* [parent, ann, attrib]; parent 0 is the element of the host entity
    written_meta,
    \* the (prefix, namespace) pairs declared on the written root element
    root_namespaces

metaVars == << mpc, nxmeta, annotations, metaError, written_meta, root_namespaces >>

\* Two threads that call add_taxon on one shared TaxonNamespace
VARIABLES
    \* the shared namespace
    shared,
    \* each thread's position in add_taxon: "idle", then the source line it
    \* is about to run ("714", "718") or the half of a statement that reads
    \* or writes the counter ("719 load", "719 store", ...), then "done"
    tpc,
    \* each thread's argument `taxon`
    targ,
    \* the value of self._current_accession_count a thread has loaded
    loaded,
    \* whether a thread loaded the counter for line 720 after the other thread
    \* had done so and before the other thread stored its increment
    raced,
    \* whether a thread ran a step of its call while the other thread was
    \* inside its call
    overlapped

raceVars == << shared, tpc, targ, loaded, raced, overlapped >>

\* what the namespace operations leave alone
NSFrame == UNCHANGED << treeVars, alphabetVars, charVars, metaVars, raceVars >>
\* what the tree build leaves alone
TreeFrame == UNCHANGED << nsVars, alphabetVars, charVars, metaVars, raceVars >>
\* what the state alphabet steps leave alone
AlphabetFrame == UNCHANGED << nsVars, treeVars, charVars, metaVars, raceVars >>
\* what the character matrix steps leave alone
CharFrame == UNCHANGED << nsVars, treeVars, alphabetVars, metaVars, raceVars >>
\* what the threads of add_taxon leave alone
RaceFrame == UNCHANGED << nsVars, treeVars, alphabetVars, charVars, metaVars >>
\* what the annotation parse leaves alone
MetaFrame == UNCHANGED << nsVars, treeVars, alphabetVars, charVars, raceVars >>

(***************************************************************************)
(* TaxonNamespace.__init__ without arguments                               *)
(***************************************************************************)
EmptyNamespace(mutable) ==
    [ taxa |-> << >>,
      accession_index_taxon_map |-> EmptyMap,
      taxon_accession_index_map |-> EmptyMap,
      taxon_bitmask_map |-> EmptyMap,
      current_accession_count |-> 0,
      is_mutable |-> mutable ]

\* `taxon in self` (__contains__)
Contains(self, taxon) == taxon \in DOMAIN self.taxon_accession_index_map

(***************************************************************************)
(* TaxonNamespace.add_taxon: result namespace and error                    *)
(***************************************************************************)
\* plausible bug: index taken from the list length instead of the counter
add_taxon_len_index(self, taxon) ==
    IF taxon \in DOMAIN self.taxon_accession_index_map
    THEN [self |-> self, err |-> NoError]
    ELSE IF ~ self.is_mutable
    THEN [self |-> self, err |-> "ImmutableTaxonNamespaceError"]
    ELSE [self |-> [self EXCEPT
                      !.taxa = Append(@, taxon),
                      !.accession_index_taxon_map = MapSet(@, Len(self.taxa), taxon),
                      !.taxon_accession_index_map = MapSet(@, taxon, Len(self.taxa)),
                      !.current_accession_count = @ + 1],
          err |-> NoError]

\* plausible bug: mutability is tested before membership
add_taxon_frozen_first(self, taxon) ==
    IF ~ self.is_mutable
    THEN [self |-> self, err |-> "ImmutableTaxonNamespaceError"]
    ELSE IF taxon \in DOMAIN self.taxon_accession_index_map
    THEN [self |-> self, err |-> NoError]
    ELSE [self |-> [self EXCEPT
                      !.taxa = Append(@, taxon),
                      !.accession_index_taxon_map =
                          MapSet(@, self.current_accession_count, taxon),
                      !.taxon_accession_index_map =
                          MapSet(@, taxon, self.current_accession_count),
                      !.current_accession_count = @ + 1],
          err |-> NoError]

\* plausible bug: a frozen namespace still takes a new taxon
add_taxon_unguarded(self, taxon) ==
    IF taxon \in DOMAIN self.taxon_accession_index_map
    THEN [self |-> self, err |-> NoError]
    ELSE [self |-> [self EXCEPT
                      !.taxa = Append(@, taxon),
                      !.accession_index_taxon_map =
                          MapSet(@, self.current_accession_count, taxon),
                      !.taxon_accession_index_map =
                          MapSet(@, taxon, self.current_accession_count),
                      !.current_accession_count = @ + 1],
          err |-> NoError]

add_taxon(self, taxon) ==
    IF taxon \in DOMAIN self.taxon_accession_index_map
    THEN [self |-> self, err |-> NoError]
    ELSE IF ~ self.is_mutable
    THEN [self |-> self, err |-> "ImmutableTaxonNamespaceError"]
    ELSE [self |-> [self EXCEPT
                      !.taxa = Append(@, taxon),
                      !.accession_index_taxon_map =
                          MapSet(@, self.current_accession_count, taxon),
                      !.taxon_accession_index_map =
                          MapSet(@, taxon, self.current_accession_count),
                      !.current_accession_count = @ + 1],
          err |-> NoError]

(***************************************************************************)
(* TaxonNamespace.remove_taxon                                             *)
(***************************************************************************)
\* plausible bug: the memoised bitmask is left behind
remove_taxon_keep_bitmask(self, taxon) ==
    IF taxon \notin Range(self.taxa)
    THEN [self |-> self, err |-> "ValueError"]
    ELSE [self |-> [self EXCEPT
                      !.taxa = ListRemoveAll(@, taxon),
                      !.accession_index_taxon_map =
                          IF taxon \in DOMAIN self.taxon_accession_index_map
                          THEN MapPop(@, self.taxon_accession_index_map[taxon])
                          ELSE @,
                      !.taxon_accession_index_map = MapPop(@, taxon)],
          err |-> NoError]

\* plausible bug: the accession counter is handed back on removal
remove_taxon_lowering_counter(self, taxon) ==
    LET r == remove_taxon_keep_bitmask(self, taxon) IN
    IF r.err # NoError THEN r
    ELSE [r EXCEPT !.self.taxon_bitmask_map = MapPop(@, taxon),
                   !.self.current_accession_count = @ - 1]

remove_taxon(self, taxon) ==
    IF taxon \notin Range(self.taxa)
    THEN [self |-> self, err |-> "ValueError"]
    ELSE [self |-> [self EXCEPT
                      !.taxa = ListRemoveAll(@, taxon),
                      !.accession_index_taxon_map =
                          IF taxon \in DOMAIN self.taxon_accession_index_map
                          THEN MapPop(@, self.taxon_accession_index_map[taxon])
                          ELSE @,
                      !.taxon_accession_index_map = MapPop(@, taxon),
                      !.taxon_bitmask_map = MapPop(@, taxon)],
          err |-> NoError]

(***************************************************************************)
(* TaxonNamespace.clear                                                    *)
(***************************************************************************)
clear(self) ==
    [self EXCEPT !.taxa = << >>,
                 !.accession_index_taxon_map = EmptyMap,
                 !.taxon_accession_index_map = EmptyMap,
                 !.taxon_bitmask_map = EmptyMap]

(***************************************************************************)
(* TaxonNamespace.taxon_bitmask: memoised 1 << accession index             *)
(***************************************************************************)
taxon_bitmask(self, taxon) ==
    IF taxon \in DOMAIN self.taxon_bitmask_map
    THEN [self |-> self, err |-> NoError, val |-> self.taxon_bitmask_map[taxon]]
    ELSE IF taxon \notin DOMAIN self.taxon_accession_index_map
    THEN [self |-> self, err |-> "KeyError", val |-> NoValue]
    ELSE LET m == Shl1(self.taxon_accession_index_map[taxon]) IN
         [self |-> [self EXCEPT !.taxon_bitmask_map = MapSet(@, taxon, m)],
          err |-> NoError, val |-> m]

(***************************************************************************)
(* TaxonNamespace.accession_index                                          *)
(***************************************************************************)
accession_index(self, taxon) ==
    IF taxon \in DOMAIN self.taxon_accession_index_map
    THEN [err |-> NoError, val |-> self.taxon_accession_index_map[taxon]]
    ELSE [err |-> "KeyError", val |-> NoValue]

(***************************************************************************)
(* TaxonNamespace.all_taxa_bitmask                                         *)
(***************************************************************************)
\* plausible bug: the mask spans the current list (pow(2, len(self)) - 1)
all_taxa_bitmask_of_len(self) == Shl1(Len(self.taxa)) - 1

all_taxa_bitmask(self) == Shl1(self.current_accession_count) - 1

(***************************************************************************)
(* TaxonNamespace.taxa_bitmask(taxa=...) and bitmask_taxa_list             *)
(***************************************************************************)
\* the loop `for taxon in taxa: bitmask |= self.taxon_bitmask(taxon)`;
\* st = [self, err, val], and a KeyError ends the loop
RECURSIVE taxa_bitmask_loop(_, _)
taxa_bitmask_loop(st, taxa) ==
    IF taxa = << >> THEN st
    ELSE LET r == taxon_bitmask(st.self, Head(taxa)) IN
         IF r.err # NoError
         THEN [self |-> r.self, err |-> r.err, val |-> NoValue]
         ELSE taxa_bitmask_loop([self |-> r.self, err |-> NoError,
                                 val |-> BitOr(st.val, r.val)], Tail(taxa))

taxa_bitmask(self, taxa) ==
    taxa_bitmask_loop([self |-> self, err |-> NoError, val |-> 0], taxa)

\* the loop `while bitmask:` of bitmask_taxa_list
RECURSIVE bitmask_taxa_loop(_, _, _, _)
bitmask_taxa_loop(self, bitmask, index, taxa) ==
    IF bitmask = 0 THEN [err |-> NoError, val |-> taxa]
    ELSE IF bitmask % 2 = 1
    THEN IF index \notin DOMAIN self.accession_index_taxon_map
         THEN [err |-> "KeyError", val |-> << >>]
         ELSE bitmask_taxa_loop(self, bitmask \div 2, index + 1,
                                Append(taxa, self.accession_index_taxon_map[index]))
    ELSE bitmask_taxa_loop(self, bitmask \div 2, index + 1, taxa)

\* plausible bug: the bits are read as list positions (self._taxa[index])
RECURSIVE bitmask_taxa_list_by_position(_, _, _)
bitmask_taxa_list_by_position(self, bitmask, index) ==
    IF bitmask = 0 THEN [err |-> NoError, val |-> << >>]
    ELSE LET rest == bitmask_taxa_list_by_position(self, bitmask \div 2, index + 1) IN
         IF bitmask % 2 = 0 THEN rest
         ELSE IF index + 1 > Len(self.taxa) \/ rest.err # NoError
         THEN [err |-> "IndexError", val |-> << >>]
         ELSE [err |-> NoError, val |-> << self.taxa[index + 1] >> \o rest.val]

bitmask_taxa_list(self, bitmask, index) ==
    bitmask_taxa_loop(self, bitmask, index, << >>)

(***************************************************************************)
(* TaxonNamespace._lookup_label with multiple=False: first match or None   *)
(***************************************************************************)
RECURSIVE FirstMatch(_, _, _, _)
FirstMatch(lst, labels, label, case_sensitive) ==
    IF lst = << >> THEN NoTaxon
    ELSE IF (IF case_sensitive
             THEN label = labels[Head(lst)]
             ELSE lower(label) = lower(labels[Head(lst)]))
         THEN Head(lst)
         ELSE FirstMatch(Tail(lst), labels, label, case_sensitive)

\* plausible bug: the look-up compares the labels as they are
lookup_label_exact(self, labels, label, case_sensitive) ==
    FirstMatch(self.taxa, labels, label, TRUE)

lookup_label_single(self, labels, label, case_sensitive) ==
    FirstMatch(self.taxa, labels, label, case_sensitive)

\* _lookup_label(label, multiple=True): the matching taxa in list order
lookup_label_multiple(self, labels, label, case_sensitive) ==
    SelectSeq(self.taxa,
              LAMBDA t : IF case_sensitive THEN label = labels[t]
                         ELSE lower(label) = lower(labels[t]))

\* plausible bug: the matching taxa leave the list and stay in the maps
remove_taxa_from_list(self, taxa) ==
    [self |-> [self EXCEPT !.taxa = SelectSeq(@, LAMBDA t : t \notin Range(taxa))],
     err |-> NoError]

\* for taxon in taxa: self.remove_taxon(taxon)
RECURSIVE remove_taxa(_, _)
remove_taxa(self, taxa) ==
    IF taxa = << >> THEN [self |-> self, err |-> NoError]
    ELSE LET r == remove_taxon(self, Head(taxa)) IN
         IF r.err # NoError THEN r ELSE remove_taxa(r.self, Tail(taxa))

remove_taxon_label(self, labels, label, case_sensitive) ==
    LET taxa == lookup_label_multiple(self, labels, label, case_sensitive) IN
    IF taxa = << >> THEN [self |-> self, err |-> "LookupError"]
    ELSE remove_taxa(self, taxa)

discard_taxon_label(self, labels, label, case_sensitive) ==
    LET taxa == lookup_label_multiple(self, labels, label, case_sensitive) IN
    IF taxa = << >> THEN [self |-> self, err |-> NoError]
    ELSE remove_taxa(self, taxa)

\* plausible bug: get_taxon matches the label as it is, whatever the flag
get_taxon_exact(self, labels, label, case_sensitive) ==
    lookup_label_single(self, labels, label, TRUE)

\* TaxonNamespace.get_taxon: the first match, or None
get_taxon(self, labels, label, case_sensitive) ==
    lookup_label_single(self, labels, label, case_sensitive)

(***************************************************************************)
(* TaxonNamespace.sort (default key: the label) and reverse                *)
(***************************************************************************)
\* the order of Python strings among the labels: "A" < "a" < "b"
LabelRank(l) == IF l = "A" THEN 1 ELSE IF l = "a" THEN 2 ELSE 3

\* list.sort is stable, also with reverse=True
RECURSIVE InsertByLabel(_, _, _, _)
InsertByLabel(sorted, x, labels, reverse) ==
    IF sorted = << >> THEN << x >>
    ELSE IF (IF reverse
             THEN LabelRank(labels[x]) > LabelRank(labels[Head(sorted)])
             ELSE LabelRank(labels[x]) < LabelRank(labels[Head(sorted)]))
         THEN << x >> \o sorted
         ELSE << Head(sorted) >> \o InsertByLabel(Tail(sorted), x, labels, reverse)

RECURSIVE SortByLabel(_, _, _)
SortByLabel(lst, labels, reverse) ==
    IF lst = << >> THEN << >>
    ELSE InsertByLabel(SortByLabel(SubSeq(lst, 1, Len(lst) - 1), labels, reverse),
                       lst[Len(lst)], labels, reverse)

\* plausible bug: the accession indices are renumbered to the new positions
sort_reindexing(self, labels, reverse) ==
    LET sorted == SortByLabel(self.taxa, labels, reverse) IN
    [self EXCEPT !.taxa = sorted,
                 !.taxon_accession_index_map =
                     [t \in DOMAIN @ |->
                         (CHOOSE i \in 1..Len(sorted) : sorted[i] = t) - 1]]

sort(self, labels, reverse) ==
    [self EXCEPT !.taxa = SortByLabel(@, labels, reverse)]

reverse(self) ==
    [self EXCEPT !.taxa = [i \in 1..Len(@) |-> @[Len(@) + 1 - i]]]

(***************************************************************************)
(* History                                                                 *)
(***************************************************************************)
\* the registrations that turned namespace `old` into `new`, in list order
RECURSIVE NewRegistrations(_, _, _)
NewRegistrations(old, new, lst) ==
    IF lst = << >> THEN << >>
    ELSE IF Head(lst) \in DOMAIN new.taxon_accession_index_map
            /\ Head(lst) \notin DOMAIN old.taxon_accession_index_map
         THEN << [taxon |-> Head(lst),
                  index |-> new.taxon_accession_index_map[Head(lst)]] >>
              \o NewRegistrations(old, new, Tail(lst))
         ELSE NewRegistrations(old, new, Tail(lst))

Logged(ns, old, new) ==
    [accessionLog EXCEPT ![ns] = @ \o NewRegistrations(old, new, new.taxa)]

Result(op, ns, arg, err, val) ==
    [op |-> op, ns |-> ns, arg |-> arg, label |-> NoLabel, case_sensitive |-> FALSE,
     taxa |-> << >>, index |-> NoValue, err |-> err, val |-> val]
\* the outcome of a call that takes a label
LabelResult(op, ns, label, case_sensitive, err, val) ==
    [op |-> op, ns |-> ns, arg |-> NoValue, label |-> label,
     case_sensitive |-> case_sensitive,
     taxa |-> << >>, index |-> NoValue, err |-> err, val |-> val]
\* the outcome of a call that takes or returns a list of taxa
ListResult(op, ns, arg, taxa, index, err, val) ==
    [op |-> op, ns |-> ns, arg |-> arg, label |-> NoLabel, case_sensitive |-> FALSE,
     taxa |-> taxa, index |-> index, err |-> err, val |-> val]

\* the lowest-numbered Taxon object not yet created
FreshTaxon == CHOOSE t \in TaxonIds :
                 /\ taxonLabel[t] = NoLabel
                 /\ \A u \in TaxonIds : u < t => taxonLabel[u] # NoLabel
CanCreate == \E t \in TaxonIds : taxonLabel[t] = NoLabel
Created(t) == taxonLabel[t] # NoLabel
Live(ns) == ns \in constructed

(***************************************************************************)
(* Initial state: one empty, mutable namespace; no Taxon objects           *)
(***************************************************************************)
\* the objects made by lines 555-558 of the constructor of namespace n
OwnContainers(n) ==
    [ taxa |-> n,
      accession_index_taxon_map |-> n,
      taxon_accession_index_map |-> n,
      taxon_bitmask_map |-> n ]

\* the namespaces after a call on namespace ns left it as `new`: a list or
\* dict is mutated in place, so every namespace bound to the same object
\* sees the change
Stored(ns, new) ==
    [n \in NSIds |->
        IF n = ns THEN new
        ELSE [namespaces[n] EXCEPT
                !.taxa = IF containers[n].taxa = containers[ns].taxa
                         THEN new.taxa ELSE @,
                !.accession_index_taxon_map =
                    IF containers[n].accession_index_taxon_map
                         = containers[ns].accession_index_taxon_map
                    THEN new.accession_index_taxon_map ELSE @,
                !.taxon_accession_index_map =
                    IF containers[n].taxon_accession_index_map
                         = containers[ns].taxon_accession_index_map
                    THEN new.taxon_accession_index_map ELSE @,
                !.taxon_bitmask_map =
                    IF containers[n].taxon_bitmask_map = containers[ns].taxon_bitmask_map
                    THEN new.taxon_bitmask_map ELSE @]]

NSStart ==
    /\ taxonLabel = [t \in TaxonIds |-> NoLabel]
    /\ constructed = {1}
    /\ namespaces = [n \in NSIds |-> EmptyNamespace(TRUE)]
    /\ ret = Result("init", 1, NoValue, NoError, NoValue)
    /\ accessionLog = [n \in NSIds |-> << >>]
    /\ containers = [n \in NSIds |-> OwnContainers(n)]

(***************************************************************************)
(* Operations                                                              *)
(***************************************************************************)
\* Taxon(label): a Taxon object outside any namespace
CreateTaxon(label) ==
    /\ CanCreate
    /\ taxonLabel' = [taxonLabel EXCEPT ![FreshTaxon] = label]
    /\ ret' = Result("Taxon", 0, NoValue, NoError, FreshTaxon)
    /\ UNCHANGED << constructed, namespaces, accessionLog >>
    /\ UNCHANGED containers
    /\ NSFrame

\* ns.is_mutable = b
SetMutable(ns, b) ==
    /\ Live(ns)
    /\ namespaces[ns].is_mutable # b
    /\ namespaces' = [namespaces EXCEPT ![ns].is_mutable = b]
    /\ ret' = Result("is_mutable", ns, IF b THEN 1 ELSE 0, NoError, NoValue)
    /\ UNCHANGED << taxonLabel, constructed, accessionLog >>
    /\ UNCHANGED containers
    /\ NSFrame

AddTaxon(ns, t) ==
    /\ Live(ns) /\ Created(t)
    /\ namespaces[ns].current_accession_count < MaxAccessions
    /\ LET r == add_taxon(namespaces[ns], t) IN
         /\ namespaces' = Stored(ns, r.self)
         /\ ret' = Result("add_taxon", ns, t, r.err, NoValue)
         /\ accessionLog' = Logged(ns, namespaces[ns], r.self)
    /\ UNCHANGED << taxonLabel, constructed >>
    /\ UNCHANGED containers
    /\ NSFrame

NewTaxon(ns, label) ==
    /\ Live(ns)
    /\ namespaces[ns].current_accession_count < MaxAccessions
    /\ IF ~ namespaces[ns].is_mutable
       THEN /\ ret' = LabelResult("new_taxon", ns, label, FALSE,
                               "ImmutableTaxonNamespaceError", NoValue)
            /\ UNCHANGED << taxonLabel, constructed, namespaces, accessionLog >>
       ELSE /\ CanCreate
            /\ LET t == FreshTaxon
                   r == add_taxon(namespaces[ns], t) IN
                 /\ taxonLabel' = [taxonLabel EXCEPT ![t] = label]
                 /\ namespaces' = Stored(ns, r.self)
                 /\ ret' = LabelResult("new_taxon", ns, label, FALSE, r.err, t)
                 /\ accessionLog' = Logged(ns, namespaces[ns], r.self)
                 /\ UNCHANGED constructed
    /\ UNCHANGED containers
    /\ NSFrame

RequireTaxon(ns, label, case_sensitive) ==
    /\ Live(ns)
    /\ namespaces[ns].current_accession_count < MaxAccessions
    /\ LET found == lookup_label_single(namespaces[ns], taxonLabel, label, case_sensitive) IN
       IF found # NoTaxon
       THEN /\ ret' = LabelResult("require_taxon", ns, label, case_sensitive, NoError, found)
            /\ UNCHANGED << taxonLabel, constructed, namespaces, accessionLog >>
       ELSE IF ~ namespaces[ns].is_mutable
       THEN /\ ret' = LabelResult("require_taxon", ns, label, case_sensitive,
                               "ImmutableTaxonNamespaceError", NoValue)
            /\ UNCHANGED << taxonLabel, constructed, namespaces, accessionLog >>
       ELSE /\ CanCreate
            /\ LET t == FreshTaxon
                   r == add_taxon(namespaces[ns], t) IN
                 /\ taxonLabel' = [taxonLabel EXCEPT ![t] = label]
                 /\ namespaces' = Stored(ns, r.self)
                 /\ ret' = LabelResult("require_taxon", ns, label, case_sensitive, r.err, t)
                 /\ accessionLog' = Logged(ns, namespaces[ns], r.self)
                 /\ UNCHANGED constructed
    /\ UNCHANGED containers
    /\ NSFrame

RemoveTaxon(ns, t) ==
    /\ Live(ns) /\ Created(t)
    /\ LET r == remove_taxon(namespaces[ns], t) IN
         /\ namespaces' = Stored(ns, r.self)
         /\ ret' = Result("remove_taxon", ns, t, r.err, NoValue)
    /\ UNCHANGED << taxonLabel, constructed, accessionLog >>
    /\ UNCHANGED containers
    /\ NSFrame

Clear(ns) ==
    /\ Live(ns)
    /\ namespaces[ns].taxa # << >>
    /\ namespaces' = Stored(ns, clear(namespaces[ns]))
    /\ ret' = Result("clear", ns, NoValue, NoError, NoValue)
    /\ UNCHANGED << taxonLabel, constructed, accessionLog >>
    /\ UNCHANGED containers
    /\ NSFrame

TaxonBitmask(ns, t) ==
    /\ Live(ns) /\ Created(t)
    /\ LET r == taxon_bitmask(namespaces[ns], t) IN
         /\ namespaces' = Stored(ns, r.self)
         /\ ret' = Result("taxon_bitmask", ns, t, r.err, r.val)
    /\ UNCHANGED << taxonLabel, constructed, accessionLog >>
    /\ UNCHANGED containers
    /\ NSFrame

AccessionIndex(ns, t) ==
    /\ Live(ns) /\ Created(t)
    /\ LET r == accession_index(namespaces[ns], t) IN
         ret' = Result("accession_index", ns, t, r.err, r.val)
    /\ UNCHANGED << taxonLabel, constructed, namespaces, accessionLog >>
    /\ UNCHANGED containers
    /\ NSFrame

GetTaxon(ns, label, case_sensitive) ==
    /\ Live(ns)
    /\ ret' = LabelResult("get_taxon", ns, label, case_sensitive, NoError,
                          get_taxon(namespaces[ns], taxonLabel, label, case_sensitive))
    /\ UNCHANGED << taxonLabel, constructed, namespaces, accessionLog >>
    /\ UNCHANGED containers
    /\ NSFrame

Sort(ns, rev) ==
    /\ Live(ns)
    /\ namespaces' = Stored(ns, sort(namespaces[ns], taxonLabel, rev))
    /\ ret' = Result("sort", ns, IF rev THEN 1 ELSE 0, NoError, NoValue)
    /\ UNCHANGED << taxonLabel, constructed, accessionLog >>
    /\ UNCHANGED containers
    /\ NSFrame

Reverse(ns) ==
    /\ Live(ns)
    /\ namespaces' = Stored(ns, reverse(namespaces[ns]))
    /\ ret' = Result("reverse", ns, NoValue, NoError, NoValue)
    /\ UNCHANGED << taxonLabel, constructed, accessionLog >>
    /\ UNCHANGED containers
    /\ NSFrame

RemoveTaxonLabel(ns, label, case_sensitive) ==
    /\ Live(ns)
    /\ LET r == remove_taxon_label(namespaces[ns], taxonLabel, label, case_sensitive) IN
         /\ namespaces' = Stored(ns, r.self)
         /\ ret' = LabelResult("remove_taxon_label", ns, label, case_sensitive,
                               r.err, NoValue)
    /\ UNCHANGED << taxonLabel, constructed, accessionLog >>
    /\ UNCHANGED containers
    /\ NSFrame

DiscardTaxonLabel(ns, label, case_sensitive) ==
    /\ Live(ns)
    /\ LET r == discard_taxon_label(namespaces[ns], taxonLabel, label, case_sensitive) IN
         /\ namespaces' = Stored(ns, r.self)
         /\ ret' = LabelResult("discard_taxon_label", ns, label, case_sensitive,
                               r.err, NoValue)
    /\ UNCHANGED << taxonLabel, constructed, accessionLog >>
    /\ UNCHANGED containers
    /\ NSFrame

\* ns.taxa_bitmask(taxa=[...]) for a list of Taxon objects
TaxaBitmask(ns) ==
    /\ Live(ns)
    /\ \E S \in SUBSET {t \in TaxonIds : Created(t)} : \E taxa \in Orders(S) :
         LET r == taxa_bitmask(namespaces[ns], taxa) IN
         /\ namespaces' = Stored(ns, r.self)
         /\ ret' = ListResult("taxa_bitmask", ns, NoValue, taxa, NoValue, r.err, r.val)
    /\ UNCHANGED << taxonLabel, constructed, accessionLog >>
    /\ UNCHANGED containers
    /\ NSFrame

\* ns.bitmask_taxa_list(bitmask, index): a mask within the indices assigned
\* so far, read from the default start index or from the next one
StartIndices == {0, 1}
BitmaskTaxaList(ns) ==
    /\ Live(ns)
    /\ \E bitmask \in 0..all_taxa_bitmask(namespaces[ns]), index \in StartIndices :
         LET r == bitmask_taxa_list(namespaces[ns], bitmask, index) IN
         ret' = ListResult("bitmask_taxa_list", ns, bitmask, r.val, index, r.err, NoValue)
    /\ UNCHANGED << taxonLabel, constructed, namespaces, accessionLog >>
    /\ UNCHANGED containers
    /\ NSFrame

AllTaxaBitmask(ns) ==
    /\ Live(ns)
    /\ ret' = Result("all_taxa_bitmask", ns, NoValue, NoError,
                     all_taxa_bitmask(namespaces[ns]))
    /\ UNCHANGED << taxonLabel, constructed, namespaces, accessionLog >>
    /\ UNCHANGED containers
    /\ NSFrame

\* the labels taxa are created with: they differ in case only, so that a
\* look-up can match several taxa; look-ups also ask for labels nobody has
QueryLabels == {"a", "A"}

NextNS ==
    \/ \E l \in QueryLabels : CreateTaxon(l)
    \/ \E b \in BOOLEAN : SetMutable(1, b)
    \/ \E t \in TaxonIds : AddTaxon(1, t)
    \/ \E l \in QueryLabels : NewTaxon(1, l)
    \/ \E l \in QueryLabels, cs \in BOOLEAN : RequireTaxon(1, l, cs)
    \/ \E t \in TaxonIds : RemoveTaxon(1, t)
    \/ Clear(1)
    \/ \E t \in TaxonIds : TaxonBitmask(1, t)
    \/ \E t \in TaxonIds : AccessionIndex(1, t)
    \/ AllTaxaBitmask(1)

\* one namespace under registration, removal, reordering and look-ups
NextQuery ==
    \/ \E l \in QueryLabels : CreateTaxon(l)
    \/ \E t \in TaxonIds : AddTaxon(1, t)
    \/ \E t \in TaxonIds : RemoveTaxon(1, t)
    \/ \E rev \in BOOLEAN : Sort(1, rev)
    \/ Reverse(1)
    \/ \E l \in QueryLabels : GetTaxon(1, l, FALSE)
    \/ \E t \in TaxonIds : TaxonBitmask(1, t)
    \/ \E t \in TaxonIds : AccessionIndex(1, t)

\* one namespace under every operation that changes its registry
NextRegistry ==
    \/ \E l \in QueryLabels : CreateTaxon(l)
    \/ \E t \in TaxonIds : AddTaxon(1, t)
    \/ \E l \in QueryLabels : NewTaxon(1, l)
    \/ \E l \in QueryLabels : RequireTaxon(1, l, TRUE)
    \/ \E t \in TaxonIds : RemoveTaxon(1, t)
    \/ \E l \in QueryLabels, cs \in BOOLEAN : RemoveTaxonLabel(1, l, cs)
    \/ \E l \in QueryLabels : DiscardTaxonLabel(1, l, FALSE)
    \/ Clear(1)
    \/ Sort(1, FALSE)
    \/ Reverse(1)
    \/ \E t \in TaxonIds : TaxonBitmask(1, t)

\* one namespace under registration, removal and bitmask conversions
NextBits ==
    \/ CreateTaxon("a")
    \/ \E t \in TaxonIds : AddTaxon(1, t)
    \/ \E t \in TaxonIds : RemoveTaxon(1, t)
    \/ TaxaBitmask(1)
    \/ BitmaskTaxaList(1)

\* one namespace under look-ups by label, with the list order varied
NextLookup ==
    \/ \E l \in QueryLabels : CreateTaxon(l)
    \/ \E t \in TaxonIds : AddTaxon(1, t)
    \/ \E l \in QueryLabels, cs \in BOOLEAN : RequireTaxon(1, l, cs)
    \/ \E t \in TaxonIds : RemoveTaxon(1, t)
    \/ Reverse(1)
    \/ \E l \in Labels, cs \in BOOLEAN : GetTaxon(1, l, cs)


(***************************************************************************)
(* TaxonNamespace.__init__ with one positional argument                    *)
(***************************************************************************)
\* the loop `for i in other`: add_taxon for a Taxon, new_taxon for a label.
\* st = [self, labels, err]; an item is a Taxon object or a label string.
TaxonItem(t) == [isTaxon |-> TRUE, taxon |-> t, label |-> NoLabel]
LabelItem(l) == [isTaxon |-> FALSE, taxon |-> NoTaxon, label |-> l]
IsTaxonItem(i) == i.isTaxon
init_item(st, i) ==
    IF st.err # NoError THEN st
    ELSE IF IsTaxonItem(i)
    THEN LET r == add_taxon(st.self, i.taxon) IN
         [self |-> r.self, labels |-> st.labels, err |-> r.err]
    ELSE IF ~ st.self.is_mutable
    THEN [st EXCEPT !.err = "ImmutableTaxonNamespaceError"]
    ELSE LET t == CHOOSE u \in TaxonIds :
                    /\ st.labels[u] = NoLabel
                    /\ \A v \in TaxonIds : v < u => st.labels[v] # NoLabel
             r == add_taxon(st.self, t) IN
         [self |-> r.self, labels |-> [st.labels EXCEPT ![t] = i.label], err |-> r.err]

RECURSIVE init_loop(_, _)
init_loop(st, items) ==
    IF items = << >> THEN st
    ELSE init_loop(init_item(st, Head(items)), Tail(items))

\* lines 571-579: every attribute of `other` except _taxa replaces the new
\* object's own (deepcopy with the taxa memoised to themselves)
copy_attributes(self, other) ==
    [ taxa |-> self.taxa,
      accession_index_taxon_map |-> other.accession_index_taxon_map,
      taxon_accession_index_map |-> other.taxon_accession_index_map,
      taxon_bitmask_map |-> other.taxon_bitmask_map,
      current_accession_count |-> other.current_accession_count,
      is_mutable |-> other.is_mutable ]

\* plausible bug: the dicts of `other` are bound as they are (no deepcopy)
copy_containers_shallow(self_id, other_id) ==
    [ taxa |-> self_id,
      accession_index_taxon_map |-> other_id,
      taxon_accession_index_map |-> other_id,
      taxon_bitmask_map |-> other_id ]

\* lines 555-558 and 578: the list is the new object's own, and deepcopy
\* makes a new dict for each dict of `other`
copy_containers(self_id, other_id) == OwnContainers(self_id)

\* TaxonNamespace(is_mutable=m)
ConstructEmpty(ns, mutable) ==
    /\ ns \notin constructed
    /\ constructed' = constructed \cup {ns}
    /\ namespaces' = [namespaces EXCEPT ![ns] = EmptyNamespace(mutable)]
    /\ ret' = Result("TaxonNamespace()", ns, NoValue, NoError, NoValue)
    /\ UNCHANGED << taxonLabel, accessionLog >>
    /\ UNCHANGED containers
    /\ NSFrame

\* TaxonNamespace(other, is_mutable=m), other a TaxonNamespace
ConstructFromNamespace(ns, other, mutable) ==
    /\ ns \notin constructed /\ other \in constructed
    /\ LET st == init_loop([self |-> EmptyNamespace(mutable),
                            labels |-> taxonLabel, err |-> NoError],
                           [k \in 1..Len(namespaces[other].taxa) |->
                               TaxonItem(namespaces[other].taxa[k])]) IN
       IF st.err # NoError
       THEN /\ ret' = Result("TaxonNamespace(other)", ns, other, st.err, NoValue)
            /\ UNCHANGED << taxonLabel, constructed, namespaces, accessionLog,
                            containers >>
       ELSE /\ constructed' = constructed \cup {ns}
            /\ namespaces' = [namespaces EXCEPT
                                ![ns] = copy_attributes(st.self, namespaces[other])]
            /\ ret' = Result("TaxonNamespace(other)", ns, other, NoError, NoValue)
            /\ accessionLog' = Logged(ns, EmptyNamespace(mutable), st.self)
            /\ containers' = [containers EXCEPT ![ns] = copy_containers(ns, other)]
            /\ UNCHANGED taxonLabel
    /\ NSFrame

\* TaxonNamespace(iterable, is_mutable=m), iterable of Taxon objects and labels
\* labels used where two namespaces are explored together
SharedLabels == {"a"}
IterableItems == {TaxonItem(t) : t \in {u \in TaxonIds : Created(u)}}
                     \cup {LabelItem(l) : l \in SharedLabels}
Iterables == UNION {[1..n -> IterableItems] : n \in 1..MaxIterable}
NewLabels(items) == Cardinality({i \in 1..Len(items) : ~ IsTaxonItem(items[i])})
ConstructFromIterable(ns, items, mutable) ==
    /\ ns \notin constructed
    /\ NewLabels(items) <= Cardinality({t \in TaxonIds : ~ Created(t)})
    /\ LET st == init_loop([self |-> EmptyNamespace(mutable),
                            labels |-> taxonLabel, err |-> NoError], items) IN
       IF st.err # NoError
       THEN /\ ret' = Result("TaxonNamespace(iterable)", ns, NoValue, st.err, NoValue)
            /\ UNCHANGED << taxonLabel, constructed, namespaces, accessionLog >>
       ELSE /\ constructed' = constructed \cup {ns}
            /\ namespaces' = [namespaces EXCEPT ![ns] = st.self]
            /\ taxonLabel' = st.labels
            /\ ret' = Result("TaxonNamespace(iterable)", ns, NoValue, NoError, NoValue)
            /\ accessionLog' = Logged(ns, EmptyNamespace(mutable), st.self)
    /\ UNCHANGED containers
    /\ NSFrame

\* a namespace and its copy TaxonNamespace(other), both under additions and
\* removals, with the bitmask of the first Taxon memoised in the original
NextCopy ==
    \/ CreateTaxon("a")
    \/ ConstructFromNamespace(2, 1, TRUE)
    \/ \E ns \in NSIds, t \in TaxonIds :
          /\ namespaces[ns].current_accession_count < MaxCopyAccessions
          /\ AddTaxon(ns, t)
    \/ \E ns \in NSIds, t \in TaxonIds : RemoveTaxon(ns, t)
    \/ TaxonBitmask(1, 1)

NextShared ==
    \/ \E l \in SharedLabels : CreateTaxon(l)
    \/ \E m \in BOOLEAN : ConstructEmpty(2, m)
    \/ \E m \in BOOLEAN : ConstructFromNamespace(2, 1, m)
    \/ \E items \in Iterables, m \in BOOLEAN : ConstructFromIterable(2, items, m)
    \/ \E ns \in NSIds, t \in TaxonIds : AddTaxon(ns, t)
    \/ \E ns \in NSIds, t \in TaxonIds : RemoveTaxon(ns, t)
    \/ \E ns \in NSIds, t \in TaxonIds : TaxonBitmask(ns, t)

(***************************************************************************)
(* The NEXML tree build: _NexmlTreesParser.parse_trees for one <tree>      *)
(*                                                                         *)
(* Node records carry the ids 1..nodeCount.  Edge records are taken with   *)
(* document-unique ids (the k-th record is edge k, as the default          *)
(* 'e' + counter gives) and well-formed lengths.  `nodes` and `edges` are  *)
(* dicts; the module is Python 2 (`except KeyError, e`, xrange), where a   *)
(* dict iterates in hash order, so edges.values() and nodes.values() are   *)
(* visited in an order unrelated to the document order.                    *)
(***************************************************************************)
NodeIds == 1..MaxNodes
\* None where a Node is expected
NoNode == 0 - 1
\* the Node that Tree() may create as its initial seed_node
DefaultSeed == 0
\* Node.edge: the Edge made by Node(), None, the <rootedge>, or edge k > 0
EdgeOfNode == 0 - 1
EdgeNone == 0
RootEdge == 0 - 2

\* dendropy.Node(): no parent, no children, its own edge
NewNode == [parent_node |-> NoNode, child_nodes |-> << >>, edge |-> EdgeOfNode]

NoTreeError == [kind |-> "none", edge |-> 0, node |-> 0]
TreeErr(kind, e, n) == [kind |-> kind, edge |-> e, node |-> n]

\* an <edge> record: source / target attribute, 0 when the attribute is absent
EdgeRecords == [source : 0..MaxNodes, target : 0..MaxNodes]
EdgeLists == UNION {[1..k -> EdgeRecords] : k \in 0..MaxEdges}
\* a <rootedge> record, or none
NoRootEdge == [present |-> FALSE, target |-> 0]
RootEdgeRecords == {NoRootEdge}
                       \cup {[present |-> TRUE, target |-> t] : t \in 0..MaxNodes}

\* plausible bug: a node may be registered as its own child
add_child_unchecked(nds, parent, child) ==
    [nodes |-> [nds EXCEPT ![child].parent_node = parent,
                           ![parent].child_nodes = Append(@, child)],
     err |-> NoTreeError]

(***************************************************************************)
(* Node.add_child: register `child` under `parent`; a node cannot be its   *)
(* own child                                                               *)
(***************************************************************************)
add_child(nds, parent, child) ==
    IF parent = child
    THEN [nodes |-> nds, err |-> TreeErr("self_loop", 0, child)]
    ELSE [nodes |-> [nds EXCEPT ![child].parent_node = parent,
                                ![parent].child_nodes = Append(@, child)],
          err |-> NoTreeError]

(***************************************************************************)
(* parse_nodes: a node record with an `otu` attribute asks the taxon        *)
(* namespace of the trees block for its taxon with                          *)
(* require_taxon(oid=taxon_id).  TaxonNamespace.require_taxon takes         *)
(* (label, case_sensitive) and no `oid`, so the call raises TypeError       *)
(* before any lookup, and `except KeyError` does not catch it.              *)
(***************************************************************************)
\* the `otu` attribute of a node record: absent, the id of a taxon of the
\* taxa block, an id the taxa block does not define
NoOtu == 0
DefinedOtu == 1
UndefinedOtu == 2
Otus == {NoOtu, DefinedOtu, UndefinedOtu}

\* require_taxon called with the keyword `oid`
require_taxon_oid(taxon_id) == TreeErr("TypeError", 0, 0)

RECURSIVE parse_nodes(_, _, _)
parse_nodes(n, otus, i) ==
    IF i > n THEN NoTreeError
    ELSE IF otus[i] # NoOtu THEN require_taxon_oid(otus[i])
    ELSE parse_nodes(n, otus, i + 1)

(***************************************************************************)
(* parse_edges: the first record without source, or without target, raises *)
(***************************************************************************)
RECURSIVE parse_edges(_, _)
parse_edges(recs, k) ==
    IF k > Len(recs) THEN NoTreeError
    ELSE IF recs[k].source = 0 THEN TreeErr("no_source", k, 0)
    ELSE IF recs[k].target = 0 THEN TreeErr("no_target", k, 0)
    ELSE parse_edges(recs, k + 1)

(***************************************************************************)
(* parse_trees lines 315-339: one pass of the loop over edges.values()     *)
(***************************************************************************)
\* ids of the parsed nodes (the keys of the dict `nodes`)
NodeKeys(nds) == (DOMAIN nds) \ {DefaultSeed}

attach_edge(nds, recs, k) ==
    LET tail == recs[k].source
        head == recs[k].target IN
    IF tail # 0 /\ tail \notin NodeKeys(nds)
    THEN [nodes |-> nds, err |-> TreeErr("undefined_source", k, tail)]
    ELSE IF head \notin NodeKeys(nds)
    THEN \* the message joins `n.oid for n in nodes` over the str keys
         IF NodeKeys(nds) = {}
         THEN [nodes |-> nds, err |-> TreeErr("undefined_target", k, head)]
         ELSE [nodes |-> nds, err |-> TreeErr("AttributeError", 0, 0)]
    ELSE IF head # 0 /\ tail # 0
    THEN add_child([nds EXCEPT ![head].edge = k], tail, head)
    ELSE IF head # 0
    THEN [nodes |-> [nds EXCEPT ![head].edge = k], err |-> NoTreeError]
    ELSE [nodes |-> nds, err |-> NoTreeError]

(***************************************************************************)
(* parse_trees lines 341-358: the root from the parentless nodes           *)
(***************************************************************************)
Parentless(nds) == {n \in NodeKeys(nds) : nds[n].parent_node = NoNode}

RECURSIVE add_children(_, _, _)
add_children(nds, parent, children) ==
    IF children = << >> THEN [nodes |-> nds, err |-> NoTreeError]
    ELSE LET r == add_child(nds, parent, Head(children)) IN
         IF r.err # NoTreeError THEN r
         ELSE add_children(r.nodes, parent, Tail(children))

\* plausible bug: no parentless node is not reported
find_root_unchecked(nds, seed, parentless) ==
    IF Len(parentless) = 1
    THEN [nodes |-> nds, seed_node |-> parentless[1], err |-> NoTreeError]
    ELSE IF Len(parentless) > 1
    THEN IF seed = NoNode
         THEN [nodes |-> nds, seed_node |-> seed,
               err |-> TreeErr("AttributeError", 0, 0)]
         ELSE LET r == add_children(nds, seed, parentless) IN
              [nodes |-> r.nodes, seed_node |-> seed, err |-> r.err]
    ELSE [nodes |-> nds, seed_node |-> seed, err |-> NoTreeError]

find_root(nds, seed, parentless) ==
    IF Len(parentless) = 1
    THEN [nodes |-> nds, seed_node |-> parentless[1], err |-> NoTreeError]
    ELSE IF Len(parentless) > 1
    THEN IF seed = NoNode
         THEN [nodes |-> nds, seed_node |-> seed,
               err |-> TreeErr("AttributeError", 0, 0)]
         ELSE LET r == add_children(nds, seed, parentless) IN
              [nodes |-> r.nodes, seed_node |-> seed, err |-> r.err]
    ELSE [nodes |-> nds, seed_node |-> seed, err |-> TreeErr("acyclic", 0, 0)]

\* plausible bug: a root edge whose target does not resolve is dropped
attach_root_edge_lenient(nds, seed, loopEdge, nxrootedge) ==
    IF nxrootedge.present
    THEN IF nxrootedge.target \notin NodeKeys(nds)
         THEN [nodes |-> nds, err |-> NoTreeError]
         ELSE [nodes |-> [nds EXCEPT ![nxrootedge.target].edge = RootEdge],
               err |-> NoTreeError]
    ELSE IF seed = NoNode
    THEN [nodes |-> nds, err |-> TreeErr("AttributeError", 0, 0)]
    ELSE [nodes |-> [nds EXCEPT ![seed].edge = EdgeNone], err |-> NoTreeError]

(***************************************************************************)
(* parse_trees lines 360-372: the root edge                                *)
(***************************************************************************)
attach_root_edge(nds, seed, loopEdge, nxrootedge) ==
    IF nxrootedge.present
    THEN IF nxrootedge.target \notin NodeKeys(nds)
         THEN \* the message reads the loop variable `edge` and `n.oid`
              IF loopEdge = 0
              THEN [nodes |-> nds, err |-> TreeErr("UnboundLocalError", 0, 0)]
              ELSE IF NodeKeys(nds) = {}
              THEN [nodes |-> nds,
                    err |-> TreeErr("undefined_target", loopEdge, nxrootedge.target)]
              ELSE [nodes |-> nds, err |-> TreeErr("AttributeError", 0, 0)]
         ELSE [nodes |-> [nds EXCEPT ![nxrootedge.target].edge = RootEdge],
               err |-> NoTreeError]
    ELSE IF seed = NoNode
    THEN [nodes |-> nds, err |-> TreeErr("AttributeError", 0, 0)]
    ELSE [nodes |-> [nds EXCEPT ![seed].edge = EdgeNone], err |-> NoTreeError]

(***************************************************************************)
(* The build, step by step                                                 *)
(***************************************************************************)
TreeStart ==
    /\ pc = "start"
    /\ nodeCount = 0
    /\ nodeOtus = << >>
    /\ rootedge = NoRootEdge
    /\ edgeRecords = << >>
    /\ nodes = EmptyMap
    /\ attached = {}
    /\ edge = 0
    /\ seed_node = NoNode
    /\ tree_list = << >>
    /\ yielded = << >>
    /\ treeError = NoTreeError

\* lines 302-312: treeobj = dendropy.Tree(...); its seed_node is a fresh Node
\* or None
NewTree ==
    /\ pc = "start"
    /\ pc' = "tree"
    /\ \E seed \in {NoNode, DefaultSeed} :
         /\ seed_node' = seed
         /\ nodes' = IF seed = DefaultSeed THEN (DefaultSeed :> NewNode) ELSE EmptyMap
    /\ UNCHANGED << nodeCount, nodeOtus, rootedge, edgeRecords, attached, edge,
                    tree_list, yielded, treeError >>
    /\ TreeFrame

\* line 313: parse_nodes over n <node> records, each with or without an
\* `otu` attribute; the dict `nodes` is local to parse_nodes until it returns
ParseNodes ==
    /\ pc = "tree"
    /\ \E n \in 0..MaxNodes :
         \E otus \in [1..n -> Otus] :
           LET r == parse_nodes(n, otus, 1) IN
           /\ nodeCount' = n
           /\ nodeOtus' = otus
           /\ treeError' = r
           /\ IF r = NoTreeError
              THEN /\ pc' = "nodes"
                   /\ nodes' = [i \in (DOMAIN nodes) \cup (1..n) |->
                                   IF i \in 1..n THEN NewNode ELSE nodes[i]]
              ELSE /\ pc' = "failed"
                   /\ UNCHANGED nodes
    /\ UNCHANGED << rootedge, edgeRecords, attached, edge, seed_node, tree_list,
                    yielded >>
    /\ TreeFrame

\* line 314: parse_edges over the <edge> records of the tree element
ParseEdges ==
    /\ pc = "nodes"
    /\ \E recs \in EdgeLists :
         /\ edgeRecords' = recs
         /\ treeError' = parse_edges(recs, 1)
    /\ pc' = IF treeError' = NoTreeError THEN "attach" ELSE "failed"
    /\ UNCHANGED << nodeCount, nodeOtus, rootedge, nodes, attached, edge, seed_node,
                    tree_list, yielded >>
    /\ TreeFrame

\* lines 315-339: one pass of the loop, for whichever edge edges.values()
\* hands out next
AttachEdge ==
    /\ pc = "attach"
    /\ \E k \in (1..Len(edgeRecords)) \ attached :
         LET r == attach_edge(nodes, edgeRecords, k) IN
         /\ nodes' = r.nodes
         /\ treeError' = r.err
         /\ pc' = IF r.err = NoTreeError THEN "attach" ELSE "failed"
         /\ attached' = attached \cup {k}
         /\ edge' = k
    /\ UNCHANGED << nodeCount, nodeOtus, rootedge, edgeRecords, seed_node, tree_list,
                    yielded >>
    /\ TreeFrame

\* lines 341-358, the parentless nodes in the order of nodes.values()
FindRoot ==
    /\ pc = "attach"
    /\ attached = 1..Len(edgeRecords)
    /\ \E parentless \in Orders(Parentless(nodes)) :
         LET r == find_root(nodes, seed_node, parentless) IN
         /\ nodes' = r.nodes
         /\ seed_node' = r.seed_node
         /\ treeError' = r.err
         /\ pc' = IF r.err = NoTreeError THEN "root" ELSE "failed"
    /\ UNCHANGED << nodeCount, nodeOtus, rootedge, edgeRecords, attached, edge,
                    tree_list, yielded >>
    /\ TreeFrame

\* lines 360-377: root edge, tree_list.append(treeobj), yield treeobj
YieldTree ==
    /\ pc = "root"
    /\ \E nxrootedge \in RootEdgeRecords :
         LET r == attach_root_edge(nodes, seed_node, edge, nxrootedge) IN
         /\ rootedge' = nxrootedge
         /\ nodes' = r.nodes
         /\ treeError' = r.err
         /\ IF r.err = NoTreeError
            THEN /\ pc' = "done"
                 /\ tree_list' = Append(tree_list, 1)
                 /\ yielded' = Append(yielded, 1)
            ELSE /\ pc' = "failed"
                 /\ UNCHANGED << tree_list, yielded >>
    /\ UNCHANGED << nodeCount, nodeOtus, edgeRecords, attached, edge, seed_node >>
    /\ TreeFrame

NextTree ==
    \/ NewTree
    \/ ParseNodes
    \/ ParseEdges
    \/ AttachEdge
    \/ FindRoot
    \/ YieldTree

(***************************************************************************)
(* State alphabets: _NexmlCharBlockParser.parse_state_alphabet and         *)
(* NexmlWriter.compose_state_definition                                    *)
(*                                                                         *)
(* An element is a record of its tag, its id, its `state` attribute (the   *)
(* reference of a <member>) and its child elements in document order.  A   *)
(* parsed StateAlphabetElement is a record of its oid, its multistate kind *)
(* and the oids of its member states in list order.                        *)
(***************************************************************************)
MemberElem(ref) == [tag |-> "member", id |-> 0, state |-> ref, children |-> << >>]
StateElem(i) == [tag |-> "state", id |-> i, state |-> 0, children |-> << >>]
SetElem(tag, i, children) == [tag |-> tag, id |-> i, state |-> 0, children |-> children]

SeqsUpTo(S, n) == UNION {[1..k -> S] : k \in 0..n}

\* the <states> elements read: the states 1 and 2, then at most one
\* uncertain set (id 3) and one polymorphic set (id 4) in either order; the
\* polymorphic set may nest uncertain sets (id 5); 9 names no state
UndefinedState == 9
UncertainElems(i, refs, n) ==
    {SetElem("uncertain_state_set", i, m) :
        m \in SeqsUpTo({MemberElem(r) : r \in refs}, n)}
PolymorphicElems ==
    {SetElem("polymorphic_state_set", 4, c) :
        c \in SeqsUpTo({MemberElem(r) : r \in {1, 2, 3, UndefinedState}}
                           \cup UncertainElems(5, {1, UndefinedState}, 1),
                       MaxMembers)}
StatesElements ==
    LET U == UncertainElems(3, {1, 2, UndefinedState}, MaxMembers)
        P == PolymorphicElems
    IN {<< StateElem(1), StateElem(2) >> \o rest :
           rest \in {<< >>} \cup {<< u >> : u \in U} \cup {<< p >> : p \in P}
                        \cup {<< u, p >> : u \in U, p \in P}
                        \cup {<< p, u >> : u \in U, p \in P}}

\* XmlElement.getiterator(tag): all descendants with the tag, document order
RECURSIVE getiterator(_, _)
getiterator(elems, tag) ==
    IF elems = << >> THEN << >>
    ELSE LET e == Head(elems) IN
         (IF e.tag = tag THEN << e >> ELSE << >>)
             \o getiterator(e.children, tag)
             \o getiterator(Tail(elems), tag)

\* StateAlphabet.get_state('oid', oid) finds a state of the alphabet
HasState(alphabet, oid) == \E i \in DOMAIN alphabet : alphabet[i].oid = oid

StateAlphabetElement(oid, multistate, member_states) ==
    [oid |-> oid, multistate |-> multistate, member_states |-> member_states]

\* the loop `for nxmember in ...getiterator('member')` of both set parsers
RECURSIVE resolve_members(_, _, _)
resolve_members(nxmembers, alphabet, acc) ==
    IF nxmembers = << >> THEN [member_states |-> acc, err |-> NoError]
    ELSE IF ~HasState(alphabet, Head(nxmembers).state)
    THEN [member_states |-> acc, err |-> "state not defined"]
    ELSE resolve_members(Tail(nxmembers), alphabet, Append(acc, Head(nxmembers).state))

parse_ambiguous_state(nxambiguous, alphabet) ==
    LET r == resolve_members(getiterator(nxambiguous.children, "member"),
                             alphabet, << >>) IN
    [state |-> StateAlphabetElement(nxambiguous.id, "AMBIGUOUS", r.member_states),
     err |-> r.err]

\* lines 541-542: the nested uncertain sets become further members
RECURSIVE parse_nested_sets(_, _, _)
parse_nested_sets(nxsets, alphabet, acc) ==
    IF nxsets = << >> THEN [member_states |-> acc, err |-> NoError]
    ELSE LET a == parse_ambiguous_state(Head(nxsets), alphabet) IN
         IF a.err # NoError THEN [member_states |-> acc, err |-> a.err]
         ELSE parse_nested_sets(Tail(nxsets), alphabet, Append(acc, a.state.oid))

\* plausible bug: members collected in reverse (insert at the front)
parse_polymorphic_state_reversed(nxpolymorphic, alphabet) ==
    LET r == resolve_members(getiterator(nxpolymorphic.children, "member"),
                             alphabet, << >>)
        n == parse_nested_sets(getiterator(nxpolymorphic.children, "uncertain_state_set"),
                               alphabet, r.member_states)
        m == IF r.err # NoError THEN r ELSE n
        rev == [i \in 1..Len(m.member_states) |->
                   m.member_states[Len(m.member_states) + 1 - i]]
    IN [state |-> StateAlphabetElement(nxpolymorphic.id, "POLYMORPHIC", rev),
        err |-> m.err]

parse_polymorphic_state(nxpolymorphic, alphabet) ==
    LET r == resolve_members(getiterator(nxpolymorphic.children, "member"),
                             alphabet, << >>)
        n == parse_nested_sets(getiterator(nxpolymorphic.children, "uncertain_state_set"),
                               alphabet, r.member_states)
        m == IF r.err # NoError THEN r ELSE n
    IN [state |-> StateAlphabetElement(nxpolymorphic.id, "POLYMORPHIC", m.member_states),
        err |-> m.err]

\* lines 554-559
RECURSIVE append_states(_, _)
append_states(nxs, alphabet) ==
    IF nxs = << >> THEN alphabet
    ELSE append_states(Tail(nxs),
                       Append(alphabet, StateAlphabetElement(Head(nxs).id, "SINGLE", << >>)))

\* lines 560-563: each set is resolved against the alphabet built so far
RECURSIVE append_sets(_, _, _)
append_sets(nxs, alphabet, polymorphic) ==
    IF nxs = << >> THEN [alphabet |-> alphabet, err |-> NoError]
    ELSE LET p == IF polymorphic
                  THEN parse_polymorphic_state(Head(nxs), alphabet)
                  ELSE parse_ambiguous_state(Head(nxs), alphabet) IN
         IF p.err # NoError THEN [alphabet |-> alphabet, err |-> p.err]
         ELSE append_sets(Tail(nxs), Append(alphabet, p.state), polymorphic)

parse_state_alphabet(nx) ==
    LET singles == append_states(getiterator(nx, "state"), << >>)
        u == append_sets(getiterator(nx, "uncertain_state_set"), singles, FALSE)
    IN IF u.err # NoError THEN u
       ELSE append_sets(getiterator(nx, "polymorphic_state_set"), u.alphabet, TRUE)

\* compose_state_definition for an element of the alphabet (member_state=False)
compose_state_definition(state) ==
    IF state.multistate = "SINGLE" THEN StateElem(state.oid)
    ELSE SetElem(IF state.multistate = "AMBIGUOUS"
                 THEN "uncertain_state_set" ELSE "polymorphic_state_set",
                 state.oid,
                 [i \in DOMAIN state.member_states |-> MemberElem(state.member_states[i])])

\* one of the three loops of write_char_matrices lines 914-922
RECURSIVE compose_states_of(_, _)
compose_states_of(alphabet, multistate) ==
    IF alphabet = << >> THEN << >>
    ELSE (IF Head(alphabet).multistate = multistate
          THEN << compose_state_definition(Head(alphabet)) >> ELSE << >>)
             \o compose_states_of(Tail(alphabet), multistate)

write_state_alphabet(alphabet) ==
    compose_states_of(alphabet, "SINGLE")
        \o compose_states_of(alphabet, "POLYMORPHIC")
        \o compose_states_of(alphabet, "AMBIGUOUS")

AlphabetStart ==
    /\ apc = "start"
    /\ nxstates = << >>
    /\ state_alphabet = << >>
    /\ state_alphabet_parts = << >>
    /\ reparsed_alphabet = << >>
    /\ alphabetError = NoError

\* a <states> element arrives
ReadStates ==
    /\ apc = "start"
    /\ apc' = "read"
    /\ \E nx \in StatesElements : nxstates' = nx
    /\ UNCHANGED << state_alphabet, state_alphabet_parts, reparsed_alphabet,
                    alphabetError >>
    /\ AlphabetFrame

ParseStateAlphabet ==
    /\ apc = "read"
    /\ LET r == parse_state_alphabet(nxstates) IN
         /\ state_alphabet' = r.alphabet
         /\ alphabetError' = r.err
         /\ apc' = IF r.err = NoError THEN "parsed" ELSE "failed"
    /\ UNCHANGED << nxstates, state_alphabet_parts, reparsed_alphabet >>
    /\ AlphabetFrame

WriteStateAlphabet ==
    /\ apc = "parsed"
    /\ apc' = "written"
    /\ state_alphabet_parts' = write_state_alphabet(state_alphabet)
    /\ UNCHANGED << nxstates, state_alphabet, reparsed_alphabet, alphabetError >>
    /\ AlphabetFrame

ParseWrittenAlphabet ==
    /\ apc = "written"
    /\ LET r == parse_state_alphabet(state_alphabet_parts) IN
         /\ reparsed_alphabet' = r.alphabet
         /\ alphabetError' = r.err
         /\ apc' = IF r.err = NoError THEN "reparsed" ELSE "failed"
    /\ UNCHANGED << nxstates, state_alphabet, state_alphabet_parts >>
    /\ AlphabetFrame

NextAlphabet ==
    \/ ReadStates
    \/ ParseStateAlphabet
    \/ WriteStateAlphabet
    \/ ParseWrittenAlphabet

(***************************************************************************)
(* Character matrices: NexmlWriter.write_char_matrices and                 *)
(* _NexmlCharBlockParser.parse_char_matrix for discrete matrices           *)
(*                                                                         *)
(* Alphabet 1 is the DNA alphabet of a DnaCharacterMatrix, alphabet 2 a    *)
(* second alphabet a standard matrix may declare.  Taxa carry the ids      *)
(* 1..MaxRows and all of them are defined in the taxon set.                *)
(***************************************************************************)
AlphabetIds == {1, 2}
StateOids == {1, 2}
State(alphabet, oid) == [alphabet |-> alphabet, oid |-> oid]
States(alphabet) == {State(alphabet, o) : o \in StateOids}
\* the None that pads a row
NoState == State(0, 0)
\* StateAlphabetElement.symbol
symbol(state) ==
    IF state.alphabet = 1 THEN (IF state.oid = 1 THEN "A" ELSE "C")
    ELSE (IF state.oid = 1 THEN "0" ELSE "1")
\* the symbols a <seq> may hold
Symbols == {"A", "C", "0"}
\* StateAlphabet.symbol_state_map() and id_state_map(), as sets of keys
symbol_state_map(alphabet) == {symbol(s) : s \in States(alphabet)}
StateOfSymbol(alphabet, sym) == CHOOSE s \in States(alphabet) : symbol(s) = sym
id_state_map(alphabet) == {s.oid : s \in States(alphabet)}

RowTaxa == 1..MaxRows
NoCharError == [kind |-> "none", pos |-> 0]
CharErr(kind, pos) == [kind |-> kind, pos |-> pos]

\* a <row>: its otu, its <seq> (absent, or text after an opening tag, or a
\* closing tag without opening tag) and its <cell> children
NxRow(otu, seq_present, seq_open, seq, cells) ==
    [otu |-> otu, seq_present |-> seq_present, seq_open |-> seq_open,
     seq |-> seq, cells |-> cells]
\* a <cell>: `char` is the column id (0: attribute absent), `state` an oid
NxCell(char, state) == [char |-> char, state |-> state]

\* the characters of the text of a <seq>: symbols, blank and tab
SeqText == Symbols \cup {" ", "\t"}
SeqRows ==
    {NxRow(t, p, TRUE, IF p THEN s ELSE << >>, << >>) :
        t \in RowTaxa, p \in BOOLEAN, s \in SeqsUpTo(SeqText, MaxChars + 1)}
CellRows ==
    {NxRow(t, FALSE, TRUE, << >>, c) :
        t \in RowTaxa,
        c \in SeqsUpTo({NxCell(ch, st) : ch \in 0..(MaxChars + 1),
                                         st \in 1..3}, MaxChars)}

\* the matrices handed to the writer: DNA, every row of the same length
Matrices ==
    UNION {UNION {[taxa -> [1..n -> States(1)]] : taxa \in SUBSET RowTaxa} :
              n \in 0..MaxChars}

EmptyMatrix ==
    [markup_as_sequences |-> FALSE, character_types |-> << >>,
     taxon_seq_map |-> EmptyMap]

(***************************************************************************)
(* write_char_matrices                                                     *)
(***************************************************************************)
\* textwrap.fill(text, initial_indent=... + "<seq>"): no line, and so no
\* opening tag, for an empty text
fill(seq_symbols) == [open |-> seq_symbols # << >>, text |-> seq_symbols]

\* lines 990-1055 for one row
write_row(taxon, row, markup_as_sequences) ==
    IF markup_as_sequences
    THEN LET seqlines == fill([i \in DOMAIN row |-> symbol(row[i])]) IN
         NxRow(taxon, TRUE, seqlines.open, seqlines.text, << >>)
    ELSE NxRow(taxon, FALSE, TRUE, << >>,
               [i \in DOMAIN row |-> NxCell(i, row[i].oid)])

\* lines 925-972: one <char id="c<col_idx>"> per column index met in the
\* rows, with the alphabet of the first cell met in that column
write_format(taxon_seq_map) ==
    LET lens == {Len(taxon_seq_map[t]) : t \in DOMAIN taxon_seq_map}
        n == IF lens = {} THEN 0 ELSE CHOOSE l \in lens : \A m \in lens : m <= l
    IN [i \in 1..n |->
           LET t == CHOOSE t \in DOMAIN taxon_seq_map : Len(taxon_seq_map[t]) >= i
           IN taxon_seq_map[t][i].alphabet]

\* the rows in the order of taxon_seq_map.items()
write_rows(taxon_seq_map, order, markup_as_sequences) ==
    [i \in DOMAIN order |->
        write_row(order[i], taxon_seq_map[order[i]], markup_as_sequences)]

(***************************************************************************)
(* parse_char_matrix                                                       *)
(***************************************************************************)
\* line 717: seq.replace(' ', '').replace('\n', '').replace('\r', '')
Replaced == {" ", "\n", "\r"}
RECURSIVE strip(_)
strip(seq) ==
    IF seq = << >> THEN << >>
    ELSE IF Head(seq) \in Replaced THEN strip(Tail(seq))
    ELSE << Head(seq) >> \o strip(Tail(seq))

\* plausible bug: every symbol is resolved against the default alphabet of
\* the matrix (that of its first column)
RECURSIVE parse_seq_default_alphabet(_, _, _, _)
parse_seq_default_alphabet(seq, col_idx, character_types, character_vector) ==
    IF seq = << >> THEN [row |-> character_vector, err |-> NoCharError]
    ELSE IF col_idx > Len(character_types)
    THEN [row |-> character_vector, err |-> CharErr("IndexError", col_idx)]
    ELSE IF Head(seq) \in symbol_state_map(character_types[1])
    THEN parse_seq_default_alphabet(Tail(seq), col_idx + 1, character_types,
                   Append(character_vector,
                          StateOfSymbol(character_types[1], Head(seq))))
    ELSE [row |-> character_vector, err |-> CharErr("state not defined", col_idx)]

\* lines 717-731: the symbols of a <seq>, col_idx counted from 1
RECURSIVE parse_seq(_, _, _, _)
parse_seq(seq, col_idx, character_types, character_vector) ==
    IF seq = << >> THEN [row |-> character_vector, err |-> NoCharError]
    ELSE IF col_idx > Len(character_types)
    THEN \* character_types[col_idx] is read before the length is compared
         [row |-> character_vector, err |-> CharErr("IndexError", col_idx)]
    ELSE IF Head(seq) \in symbol_state_map(character_types[col_idx])
    THEN parse_seq(Tail(seq), col_idx + 1, character_types,
                   Append(character_vector,
                          StateOfSymbol(character_types[col_idx], Head(seq))))
    ELSE [row |-> character_vector, err |-> CharErr("state not defined", col_idx)]

\* CharacterDataVector.set_cell_by_index: pad with None up to the position
set_cell_by_index(character_vector, pos_idx, cell) ==
    [i \in 1..(IF Len(character_vector) > pos_idx
               THEN Len(character_vector) ELSE pos_idx) |->
        IF i = pos_idx THEN cell
        ELSE IF i <= Len(character_vector) THEN character_vector[i]
        ELSE NoState]

\* lines 735-749: the <cell> children of a row
RECURSIVE parse_cells(_, _, _, _)
parse_cells(cells, k, character_types, character_vector) ==
    IF k > Len(cells) THEN [row |-> character_vector, err |-> NoCharError]
    ELSE IF cells[k].char = 0
    THEN [row |-> character_vector, err |-> CharErr("char missing", k)]
    ELSE IF cells[k].char \notin DOMAIN character_types
    THEN [row |-> character_vector, err |-> CharErr("char not found", k)]
    ELSE IF cells[k].state \notin id_state_map(character_types[cells[k].char])
    THEN [row |-> character_vector, err |-> CharErr("KeyError", k)]
    ELSE parse_cells(cells, k + 1, character_types,
                     set_cell_by_index(character_vector, cells[k].char,
                                       State(character_types[cells[k].char],
                                             cells[k].state)))

\* lines 661-751 for one <row>; require_taxon(oid=...) is no call that
\* TaxonNamespace.require_taxon(label, case_sensitive) accepts
parse_row(cm, nx, kind, markup) ==
    IF kind = "TaxonNamespace"
    THEN [char_matrix |-> cm, err |-> CharErr("TypeError", 0)]
    ELSE LET r == IF markup = "Seqs"
                  THEN IF nx.seq_present
                       THEN parse_seq(strip(nx.seq), 1, cm.character_types, << >>)
                       ELSE [row |-> << >>, err |-> NoCharError]
                  ELSE parse_cells(nx.cells, 1, cm.character_types, << >>)
             m == [cm EXCEPT !.markup_as_sequences = (markup = "Seqs")]
         IN IF r.err # NoCharError THEN [char_matrix |-> m, err |-> r.err]
            ELSE [char_matrix |->
                      [m EXCEPT !.taxon_seq_map = MapSet(@, nx.otu, r.row)],
                  err |-> NoCharError]

CharStart ==
    /\ cpc = "start"
    /\ source = "none"
    /\ taxon_set_kind = "TaxonNamespace"
    /\ original = EmptyMatrix
    /\ nxchartype = "Cells"
    /\ nxformat = << >>
    /\ nxrows = << >>
    /\ nxrow = NxRow(0, FALSE, TRUE, << >>, << >>)
    /\ rowCount = 0
    /\ char_matrix = EmptyMatrix
    /\ char_matrices = << >>
    /\ charError = NoCharError

\* a characters block of a document arrives
ReadCharacters ==
    /\ cpc = "start"
    /\ cpc' = "format"
    /\ source' = "document"
    /\ \E kind \in {"TaxonNamespace", "TaxonSet"} : taxon_set_kind' = kind
    /\ \E markup \in {"Seqs", "Cells"} : nxchartype' = markup
    /\ \E chars \in SeqsUpTo(AlphabetIds, MaxChars) : nxformat' = chars
    /\ UNCHANGED << original, nxrows, nxrow, rowCount, char_matrix, char_matrices,
                    charError >>
    /\ CharFrame

\* write_char_matrices for a DNA matrix
WriteCharMatrix ==
    /\ cpc = "start"
    /\ cpc' = "format"
    /\ source' = "writer"
    /\ \E kind \in {"TaxonNamespace", "TaxonSet"} : taxon_set_kind' = kind
    /\ \E m \in Matrices, seqs \in BOOLEAN :
         /\ original' = [markup_as_sequences |-> seqs,
                         character_types |-> [i \in 1..Len(write_format(m)) |-> 1],
                         taxon_seq_map |-> m]
         /\ nxchartype' = IF seqs THEN "Seqs" ELSE "Cells"
         /\ nxformat' = write_format(m)
         /\ \E order \in Orders(DOMAIN m) : nxrows' = write_rows(m, order, seqs)
    /\ UNCHANGED << nxrow, rowCount, char_matrix, char_matrices, charError >>
    /\ CharFrame

\* the document is read (a closing tag without opening tag ends it), then
\* lines 610-660 with parse_characters_format
ParseCharactersFormat ==
    /\ cpc = "format"
    /\ IF \E i \in DOMAIN nxrows : ~nxrows[i].seq_open
       THEN /\ cpc' = "failed"
            /\ charError' = CharErr("not well-formed", 0)
            /\ UNCHANGED char_matrix
       ELSE /\ cpc' = "rows"
            /\ char_matrix' = [EmptyMatrix EXCEPT !.character_types = nxformat]
            /\ UNCHANGED charError
    /\ UNCHANGED << source, taxon_set_kind, original, nxchartype, nxformat, nxrows,
                    nxrow, rowCount, char_matrices >>
    /\ CharFrame

\* lines 661-751 for the next <row> of a document
ParseRow ==
    /\ cpc = "rows"
    /\ source = "document"
    /\ rowCount < MaxRows
    /\ rowCount' = rowCount + 1
    /\ \E nx \in IF nxchartype = "Seqs" THEN SeqRows ELSE CellRows :
         LET r == parse_row(char_matrix, nx, taxon_set_kind, nxchartype) IN
         /\ nxrow' = nx
         /\ char_matrix' = r.char_matrix
         /\ charError' = r.err
         /\ cpc' = IF r.err = NoCharError THEN "rows" ELSE "failed"
    /\ UNCHANGED << source, taxon_set_kind, original, nxchartype, nxformat, nxrows,
                    char_matrices >>
    /\ CharFrame

\* lines 661-751 for the next <row> of the written block
ParseWrittenRow ==
    /\ cpc = "rows"
    /\ source = "writer"
    /\ nxrows # << >>
    /\ nxrows' = Tail(nxrows)
    /\ rowCount' = rowCount + 1
    /\ nxrow' = Head(nxrows)
    /\ LET r == parse_row(char_matrix, Head(nxrows), taxon_set_kind, nxchartype) IN
         /\ char_matrix' = r.char_matrix
         /\ charError' = r.err
         /\ cpc' = IF r.err = NoCharError THEN "rows" ELSE "failed"
    /\ UNCHANGED << source, taxon_set_kind, original, nxchartype, nxformat,
                    char_matrices >>
    /\ CharFrame

\* line 753 after the last <row>
AppendCharMatrix ==
    /\ cpc = "rows"
    /\ source = "writer" => nxrows = << >>
    /\ cpc' = "done"
    /\ char_matrices' = Append(char_matrices, char_matrix)
    /\ UNCHANGED << source, taxon_set_kind, original, nxchartype, nxformat, nxrows,
                    nxrow, rowCount, char_matrix, charError >>
    /\ CharFrame

NextChars ==
    \/ ReadCharacters
    \/ WriteCharMatrix
    \/ ParseCharactersFormat
    \/ ParseRow
    \/ ParseWrittenRow
    \/ AppendCharMatrix

\* the sequence rows of a document, one taxon's rows at a time
NextSeq ==
    \/ ReadCharacters /\ nxchartype' = "Seqs"
    \/ ParseCharactersFormat
    \/ rowCount < MaxSeqRows /\ ParseRow /\ nxrow'.otu = 1
    \/ AppendCharMatrix

(***************************************************************************)
(* _AnnotationParser.parse_annotations                                     *)
(***************************************************************************)
NoKey == [name_prefix |-> "", name |-> ""]
\* an attribute the element does not carry (attrib.get(..., None))
NoAttr == "None"
\* the value of `property` / `rel`, as Annotation.parse_qualified_name splits
\* it: a prefix the document declares, a prefix it does not, or no attribute
MetaKeys == {[name_prefix |-> "dc", name |-> "title"],
             [name_prefix |-> "zz", name |-> "title"],
             NoKey}
\* self.namespace_map: namespace -> prefix
namespace_map ==
    [ns \in {"http://purl.org/dc/elements/1.1/", "http://rs.tdwg.org/dwc/terms/"} |->
        IF ns = "http://purl.org/dc/elements/1.1/" THEN "dc" ELSE "dwc"]
NoMetaError == "ok"

\* <meta xsi:type="nex:LiteralMeta" property=key content="v"/>
LiteralMeta(key) ==
    [type |-> "nex:LiteralMeta", property |-> key, content |-> "v",
     datatype |-> NoAttr, rel |-> NoKey, href |-> NoAttr]
\* <meta xsi:type="nex:ResourceMeta" rel=key href="http://example.org/r"/>
ResourceMeta(key) ==
    [type |-> "nex:ResourceMeta", property |-> NoKey, content |-> NoAttr,
     datatype |-> NoAttr, rel |-> key, href |-> "http://example.org/r"]

\* the shapes of a forest of n <meta> elements: element i lies directly in
\* element parent[i] < i, or in the annotated element when parent[i] = 0
MetaParents(n) == {f \in [1..n -> 0..n] : \A i \in 1..n : f[i] < i}

\* the forests of at most MaxMeta literal <meta> elements
MetaDocs ==
    UNION {{[n |-> n, parent |-> p, attrib |-> [i \in 1..n |-> LiteralMeta(k[i])]] :
               p \in MetaParents(n),
               k \in [1..n -> MetaKeys]} : n \in 0..MaxMeta}

\* the literal and resource <meta> elements with a declared prefix
TypedMetas ==
    {LiteralMeta([name_prefix |-> "dc", name |-> "title"]),
     ResourceMeta([name_prefix |-> "dc", name |-> "title"]),
     LiteralMeta([name_prefix |-> "dwc", name |-> "title"])}

\* the forests of at most MaxMeta <meta> elements of both kinds
TypedMetaDocs ==
    UNION {{[n |-> n, parent |-> p, attrib |-> a] :
               p \in MetaParents(n),
               a \in [1..n -> TypedMetas]} : n \in 0..MaxMeta}

\* the ids in S as a list in document order
RECURSIVE InDocumentOrder(_)
InDocumentOrder(S) ==
    IF S = {} THEN << >>
    ELSE LET m == CHOOSE x \in S : \A y \in S : x <= y IN
         << m >> \o InDocumentOrder(S \ {m})

\* XmlElement.iter_top_children('meta'): the <meta> elements directly in e
iter_top_children(doc, e) ==
    InDocumentOrder({i \in 1..doc.n : doc.parent[i] = e})

\* annotated.add_annotation(...): a new Annotation object owned by
\* `annotated`; st = [annotations, err]
add_annotation(st, annotated, e, key, value, datatype_hint, namespace) ==
    [st EXCEPT !.annotations =
        Append(@, [owner |-> annotated, elem |-> e, name_prefix |-> key.name_prefix,
                   name |-> key.name, value |-> value,
                   datatype_hint |-> datatype_hint, namespace |-> namespace])]

\* lines 123-138: the key, value and datatype hint an element's kind gives
meta_fields(attrib) ==
    IF attrib.type = "nex:LiteralMeta"
    THEN [value |-> attrib.content, key |-> attrib.property,
          datatype_hint |-> attrib.datatype]
    ELSE [value |-> attrib.href, key |-> attrib.rel,
          datatype_hint |-> attrib.href]

\* plausible bug: the nested elements are parsed onto `annotated`, not `a`
RECURSIVE parse_annotations_flat(_, _, _, _)
parse_annotations_flat(doc, st, annotated, e) ==
    LET f == meta_fields(doc.attrib[e]) IN
    IF st.err # NoMetaError THEN st
    ELSE IF f.key = NoKey \/ ~ \E ns \in DOMAIN namespace_map :
                                  namespace_map[ns] = f.key.name_prefix
    THEN [st EXCEPT !.err = "ValueError"]
    ELSE LET top == iter_top_children(doc, e)
             st1 == add_annotation(st, annotated, e, f.key, f.value, f.datatype_hint,
                       CHOOSE ns \in DOMAIN namespace_map :
                           namespace_map[ns] = f.key.name_prefix)
             step[k \in 0..Len(top)] ==
                 IF k = 0 THEN st1
                 ELSE parse_annotations_flat(doc, step[k - 1], annotated, top[k]) IN
         step[Len(top)]

\* parse_annotations(annotated, nxelement); a raised ValueError ends the
\* parse with the Annotation objects made so far
RECURSIVE parse_annotations(_, _, _, _)
parse_annotations(doc, st, annotated, e) ==
    LET f == meta_fields(doc.attrib[e]) IN
    IF st.err # NoMetaError THEN st
    ELSE IF f.key = NoKey
    THEN [st EXCEPT !.err = "ValueError"]
    ELSE IF ~ \E ns \in DOMAIN namespace_map :
                 namespace_map[ns] = f.key.name_prefix
    THEN [st EXCEPT !.err = "ValueError"]
    ELSE LET namespace == CHOOSE ns \in DOMAIN namespace_map :
                              namespace_map[ns] = f.key.name_prefix
             st1 == add_annotation(st, annotated, e, f.key, f.value,
                                   f.datatype_hint, namespace)
             a == Len(st1.annotations)
             top_annotations == iter_top_children(doc, e)
             step[k \in 0..Len(top_annotations)] ==
                 IF k = 0 THEN st1
                 ELSE parse_annotations(doc, step[k - 1], a, top_annotations[k]) IN
         step[Len(top_annotations)]

\* the callers' loop over the <meta> elements directly in the annotated
\* element: `for annotation in top_annotations: parse_annotations(host, ...)`
parse_top_annotations(doc) ==
    LET top_annotations == iter_top_children(doc, 0)
        step[k \in 0..Len(top_annotations)] ==
            IF k = 0 THEN [annotations |-> << >>, err |-> NoMetaError]
            ELSE parse_annotations(doc, step[k - 1], 0, top_annotations[k]) IN
    step[Len(top_annotations)]

(***************************************************************************)
(* NexmlWriter: write_annotations, _compose_annotation_xml and the root    *)
(* element of write_to_nexml_open                                          *)
(***************************************************************************)
\* annote.annotations / annotated.annotations: the Annotation objects owned
\* by `owner`, in the order they were added
annotations_of(anns, owner) ==
    InDocumentOrder({x \in 1..Len(anns) : anns[x].owner = owner})

\* the attributes _compose_annotation_xml writes for one annotation
compose_meta_attrib(annote) ==
    LET key == [name_prefix |-> annote.name_prefix, name |-> annote.name]
        value == IF annote.value = NoAttr THEN "" ELSE annote.value IN
    IF annote.datatype_hint = "href"
    THEN [type |-> "nex:ResourceMeta", property |-> NoKey, content |-> NoAttr,
          datatype |-> NoAttr, rel |-> key, href |-> value]
    ELSE [type |-> "nex:LiteralMeta", property |-> key, content |-> value,
          datatype |-> annote.datatype_hint, rel |-> NoKey, href |-> NoAttr]

\* _compose_annotation_xml(annote): the <meta> element of annotation x below
\* the written element `parent`, followed by the elements of its nested
\* annotations; out is the list of [parent, ann, attrib] written so far
RECURSIVE compose_annotation_xml(_, _, _, _)
compose_annotation_xml(anns, out, parent, x) ==
    LET out1 == Append(out, [parent |-> parent, ann |-> x,
                             attrib |-> compose_meta_attrib(anns[x])])
        me == Len(out1)
        nested == annotations_of(anns, x)
        step[k \in 0..Len(nested)] ==
            IF k = 0 THEN out1
            ELSE compose_annotation_xml(anns, step[k - 1], me, nested[k]) IN
    step[Len(nested)]

\* write_annotations(annotated, dest): st = [prefix_uri_tuples, body]
write_annotations(anns, annotated) ==
    LET top == annotations_of(anns, annotated)
        step[k \in 0..Len(top)] ==
            IF k = 0 THEN [prefix_uri_tuples |-> {}, body |-> << >>]
            ELSE [prefix_uri_tuples |->
                      step[k - 1].prefix_uri_tuples
                          \cup {<< anns[top[k]].name_prefix, anns[top[k]].namespace >>},
                  body |-> compose_annotation_xml(anns, step[k - 1].body, 0, top[k])] IN
    step[Len(top)]

\* the namespaces every document root declares
ensured_namespaces ==
    << << "", "http://www.nexml.org/2009" >>,
       << "xsi", "http://www.w3.org/2001/XMLSchema-instance" >>,
       << "xml", "http://www.w3.org/XML/1998/namespace" >>,
       << "nex", "http://www.nexml.org/2009" >>,
       << "dendropy", "http://packages.python.org/DendroPy/" >> >>

\* write_to_nexml_open: the xmlns declarations of the root element
write_to_nexml_open(tuples) ==
    tuples \cup {ensured_namespaces[i] : i \in
                    {j \in 1..Len(ensured_namespaces) :
                        \A t \in tuples : t[1] # ensured_namespaces[j][1]}}

MetaStart ==
    /\ mpc = "start"
    /\ nxmeta = [n |-> 0, parent |-> << >>, attrib |-> << >>]
    /\ annotations = << >>
    /\ metaError = NoMetaError
    /\ written_meta = << >>
    /\ root_namespaces = {}

\* an annotated element of the document is met
ReadMetaElements ==
    /\ mpc = "start"
    /\ \E doc \in MetaDocs : nxmeta' = doc
    /\ mpc' = "read"
    /\ UNCHANGED << annotations, metaError, written_meta, root_namespaces >>
    /\ MetaFrame

\* the same, for a document with literal and resource <meta> elements
ReadTypedMetaElements ==
    /\ mpc = "start"
    /\ \E doc \in TypedMetaDocs : nxmeta' = doc
    /\ mpc' = "read"
    /\ UNCHANGED << annotations, metaError, written_meta, root_namespaces >>
    /\ MetaFrame

ParseAnnotations ==
    /\ mpc = "read"
    /\ LET st == parse_top_annotations(nxmeta) IN
         /\ annotations' = st.annotations
         /\ metaError' = st.err
    /\ mpc' = "parsed"
    /\ UNCHANGED << nxmeta, written_meta, root_namespaces >>
    /\ MetaFrame

\* NexmlWriter.write of the dataset that was read: the body with the
\* annotations, then the root element
WriteAnnotations ==
    /\ mpc = "parsed" /\ metaError = NoMetaError
    /\ LET st == write_annotations(annotations, 0) IN
         /\ written_meta' = st.body
         /\ root_namespaces' = write_to_nexml_open(st.prefix_uri_tuples)
    /\ mpc' = "written"
    /\ UNCHANGED << nxmeta, annotations, metaError >>
    /\ MetaFrame

NextMeta ==
    \/ ReadMetaElements
    \/ ParseAnnotations

NextMetaWrite ==
    \/ ReadTypedMetaElements
    \/ ParseAnnotations
    \/ WriteAnnotations

(***************************************************************************)
(* add_taxon called by two threads on one shared TaxonNamespace            *)
(*                                                                         *)
(* add_taxon takes no lock.  The interpreter may switch threads between    *)
(* any two bytecodes, so a statement that reads the counter and writes a   *)
(* container is two steps: the load of self._current_accession_count and   *)
(* the store.  Before the threads start, the namespace may have been       *)
(* filled by serial add_taxon calls.                                       *)
(***************************************************************************)
Threads == {1, 2}
OtherThread(t) == CHOOSE u \in Threads : u # t

\* the positions between the load of the counter for line 720 and the store
\* of the increment of line 721
AfterIndexLoad == {"720 store", "721 load", "721 store"}
\* the positions inside a call
InCall == {"714", "718", "719 load", "719 store", "720 load", "720 store",
           "721 load", "721 store"}

\* plausible bug: the index is the position the taxon got in the list
load_list_position(self) == Len(self.taxa) - 1

\* the load of self._current_accession_count
load_accession_count(self) == self.current_accession_count

RaceStart ==
    /\ shared = EmptyNamespace(TRUE)
    /\ tpc = [t \in Threads |-> "idle"]
    /\ targ = [t \in Threads |-> NoTaxon]
    /\ loaded = [t \in Threads |-> NoValue]
    /\ raced = FALSE
    /\ overlapped = FALSE

\* a step of thread t inside its call
Step(t, next) ==
    /\ tpc' = [tpc EXCEPT ![t] = next]
    /\ overlapped' = (overlapped \/ tpc[OtherThread(t)] \in InCall)

\* add_taxon(taxon) by the only thread there is so far
SerialAddTaxon(taxon) ==
    /\ \A t \in Threads : tpc[t] = "idle"
    /\ ~Contains(shared, taxon)
    /\ shared' = add_taxon(shared, taxon).self
    /\ UNCHANGED << tpc, targ, loaded, raced, overlapped >>
    /\ RaceFrame

\* thread t calls add_taxon(taxon)
CallAddTaxon(t, taxon) ==
    /\ tpc[t] = "idle"
    /\ tpc' = [tpc EXCEPT ![t] = "714"]
    /\ targ' = [targ EXCEPT ![t] = taxon]
    /\ UNCHANGED << shared, loaded, raced, overlapped >>
    /\ RaceFrame

\* lines 714-717: return for a member; the shared namespace is mutable
TestMembership(t) ==
    /\ tpc[t] = "714"
    /\ Step(t, IF Contains(shared, targ[t]) THEN "done" ELSE "718")
    /\ UNCHANGED << shared, targ, loaded, raced >>
    /\ RaceFrame

\* line 718: self._taxa.append(taxon)
AppendTaxon(t) ==
    /\ tpc[t] = "718"
    /\ shared' = [shared EXCEPT !.taxa = Append(@, targ[t])]
    /\ Step(t, "719 load")
    /\ UNCHANGED << targ, loaded, raced >>
    /\ RaceFrame

\* lines 719, 720, 721: the load of self._current_accession_count
LoadAccessionCount(t) ==
    /\ tpc[t] \in {"719 load", "720 load", "721 load"}
    /\ loaded' = [loaded EXCEPT ![t] = load_accession_count(shared)]
    /\ raced' = (raced \/ (tpc[t] = "720 load"
                             /\ tpc[OtherThread(t)] \in AfterIndexLoad))
    /\ Step(t, IF tpc[t] = "719 load" THEN "719 store"
               ELSE IF tpc[t] = "720 load" THEN "720 store" ELSE "721 store")
    /\ UNCHANGED << shared, targ >>
    /\ RaceFrame

\* line 719: self._accession_index_taxon_map[<loaded>] = taxon
StoreIndexTaxon(t) ==
    /\ tpc[t] = "719 store"
    /\ shared' = [shared EXCEPT
                    !.accession_index_taxon_map = MapSet(@, loaded[t], targ[t])]
    /\ Step(t, "720 load")
    /\ UNCHANGED << targ, loaded, raced >>
    /\ RaceFrame

\* line 720: self._taxon_accession_index_map[taxon] = <loaded>
StoreTaxonIndex(t) ==
    /\ tpc[t] = "720 store"
    /\ shared' = [shared EXCEPT
                    !.taxon_accession_index_map = MapSet(@, targ[t], loaded[t])]
    /\ Step(t, "721 load")
    /\ UNCHANGED << targ, loaded, raced >>
    /\ RaceFrame

\* line 721: self._current_accession_count = <loaded> + 1
StoreAccessionCount(t) ==
    /\ tpc[t] = "721 store"
    /\ shared' = [shared EXCEPT !.current_accession_count = loaded[t] + 1]
    /\ Step(t, "done")
    /\ UNCHANGED << targ, loaded, raced >>
    /\ RaceFrame

NextRace ==
    \/ \E taxon \in TaxonIds : SerialAddTaxon(taxon)
    \/ \E t \in Threads, taxon \in TaxonIds : CallAddTaxon(t, taxon)
    \/ \E t \in Threads : TestMembership(t)
    \/ \E t \in Threads : AppendTaxon(t)
    \/ \E t \in Threads : LoadAccessionCount(t)
    \/ \E t \in Threads : StoreIndexTaxon(t)
    \/ \E t \in Threads : StoreTaxonIndex(t)
    \/ \E t \in Threads : StoreAccessionCount(t)

(***************************************************************************)
(* Specifications                                                          *)
(***************************************************************************)
vars == << nsVars, treeVars, alphabetVars, charVars, metaVars, raceVars >>

\* every specification starts with no namespace content, no tree, no
\* alphabet, no characters block and no annotations
InitNS == NSStart /\ TreeStart /\ AlphabetStart /\ CharStart /\ MetaStart /\ RaceStart
SpecNS == InitNS /\ [][NextNS]_vars
SpecShared == InitNS /\ [][NextShared]_vars
SpecRegistry == InitNS /\ [][NextRegistry]_vars
SpecQuery == InitNS /\ [][NextQuery]_vars
SpecLookup == InitNS /\ [][NextLookup]_vars
SpecBits == InitNS /\ [][NextBits]_vars
SpecCopy == InitNS /\ [][NextCopy]_vars

InitTree == NSStart /\ TreeStart /\ AlphabetStart /\ CharStart /\ MetaStart /\ RaceStart
SpecTree == InitTree /\ [][NextTree]_vars

InitAlphabet == NSStart /\ TreeStart /\ AlphabetStart /\ CharStart /\ MetaStart /\ RaceStart
SpecAlphabet == InitAlphabet /\ [][NextAlphabet]_vars

InitMeta == NSStart /\ TreeStart /\ AlphabetStart /\ CharStart /\ MetaStart /\ RaceStart
SpecMeta == InitMeta /\ [][NextMeta]_vars
SpecMetaWrite == InitMeta /\ [][NextMetaWrite]_vars

InitChars == NSStart /\ TreeStart /\ AlphabetStart /\ CharStart /\ MetaStart /\ RaceStart
SpecSeq == InitChars /\ [][NextSeq]_vars
SpecChars == InitChars /\ [][NextChars]_vars

SpecRace == InitNS /\ [][NextRace]_vars

(***************************************************************************)
(* Properties of the accession indices (SpecNS)                            *)
(***************************************************************************)
\* the index a taxon was given by its latest registration in the log
RECURSIVE LastLogged(_, _)
LastLogged(log, t) ==
    IF log = << >> THEN NoValue
    ELSE IF log[Len(log)].taxon = t THEN log[Len(log)].index
         ELSE LastLogged(SubSeq(log, 1, Len(log) - 1), t)

\* C1: accession indices are handed out as 0, 1, 2, ... in registration
\* order: the k-th registration ever made in a namespace (whatever was removed
\* or cleared in between) got index k-1, so every new index exceeds all
\* earlier ones, no two registrations share an index, and a registered taxon
\* holds the index of its latest registration.
C1_AccessionIndicesIncrease ==
    \A ns \in constructed :
        /\ \A i \in 1..Len(accessionLog[ns]) : accessionLog[ns][i].index = i - 1
        /\ \A t \in DOMAIN namespaces[ns].taxon_accession_index_map :
               namespaces[ns].taxon_accession_index_map[t]
                   = LastLogged(accessionLog[ns], t)

\* a taxon was registered, removed and registered again after another taxon
C1_Witness ==
    \E i, j \in 1..Len(accessionLog[1]) :
        /\ i + 1 < j
        /\ accessionLog[1][i].taxon = accessionLog[1][j].taxon
        /\ accessionLog[1][j].taxon \in DOMAIN namespaces[1].taxon_accession_index_map

\* C2: every taxon_bitmask(t) call on a registered taxon returns
\* 1 << accession_index(t), and every memoised bitmask belongs to a registered
\* taxon and equals 1 << its current accession index (no stale cache entry).
C2_BitmaskIsShiftedIndex ==
    \A ns \in constructed :
        /\ \A t \in DOMAIN namespaces[ns].taxon_bitmask_map :
              /\ t \in DOMAIN namespaces[ns].taxon_accession_index_map
              /\ namespaces[ns].taxon_bitmask_map[t]
                    = Shl1(namespaces[ns].taxon_accession_index_map[t])
        /\ (ret.op = "taxon_bitmask" /\ ret.ns = ns /\ ret.err = NoError)
              => ret.val = Shl1(namespaces[ns].taxon_accession_index_map[ret.arg])

\* a bitmask call on a taxon that was cached, removed and registered again
C2_Witness ==
    /\ ret.op = "taxon_bitmask" /\ ret.ns = 1 /\ ret.err = NoError
    /\ ret.val > 1
    /\ \E i, j \in 1..Len(accessionLog[1]) :
          /\ i < j
          /\ accessionLog[1][i].taxon = ret.arg
          /\ accessionLog[1][j].taxon = ret.arg

\* C12: accession_index(t) is the index t was given at its latest
\* registration, and no step (registering or removing other taxa, sort,
\* reverse, a label look-up, a bitmask query) changes the index of a taxon
\* that is registered before and after it.
C12_AccessionIndexStable ==
    /\ [](/\ \A t \in DOMAIN namespaces[1].taxon_accession_index_map :
                accession_index(namespaces[1], t).val = LastLogged(accessionLog[1], t)
          /\ (ret.op = "accession_index" /\ ret.err = NoError) =>
                ret.val = LastLogged(accessionLog[1], ret.arg))
    /\ [][\A t \in DOMAIN namespaces[1].taxon_accession_index_map
                   \cap DOMAIN namespaces'[1].taxon_accession_index_map :
             accession_index(namespaces'[1], t) = accession_index(namespaces[1], t)]_vars

\* the index of a taxon is asked for after a reordering put it in front of
\* a taxon registered earlier
C12_Witness ==
    /\ ret.op = "accession_index" /\ ret.val = 1
    /\ Len(namespaces[1].taxa) = 2
    /\ namespaces[1].taxa[1] = ret.arg
    /\ namespaces[1].taxon_accession_index_map[namespaces[1].taxa[2]] = 0

\* C13: add_taxon(t) for a taxon t that is already registered changes nothing
\* in the namespace (list, both index maps, bitmask cache, counter) and raises
\* no error, also when the namespace is frozen.
C13_AddRegisteredIsNoOp ==
    [][(/\ ret'.op = "add_taxon"
        /\ ret'.arg \in DOMAIN namespaces[ret'.ns].taxon_accession_index_map)
       => /\ ret'.err = NoError
          /\ namespaces' = namespaces
          /\ accessionLog' = accessionLog]_vars

\* a registered taxon was added again to a frozen namespace, without error
C13_Witness ==
    /\ ret.op = "add_taxon" /\ ret.err = NoError
    /\ ~ namespaces[1].is_mutable
    /\ ret.arg \in DOMAIN namespaces[1].taxon_accession_index_map

\* C14: in a frozen namespace, add_taxon of an unregistered taxon,
\* new_taxon(label) and require_taxon with a label that matches no registered
\* taxon each fail with the immutable-namespace error, and leave the list,
\* both index maps and the counter as they were; no Taxon is created.
C14_FrozenRejectsNewTaxa ==
    [][(/\ ~ namespaces[1].is_mutable
        /\ \/ /\ ret'.op = "add_taxon"
              /\ ret'.arg \notin DOMAIN namespaces[1].taxon_accession_index_map
           \/ ret'.op = "new_taxon"
           \/ /\ ret'.op = "require_taxon"
              /\ lookup_label_single(namespaces[1], taxonLabel, ret'.label,
                                     ret'.case_sensitive) = NoTaxon)
       => /\ ret'.err = "ImmutableTaxonNamespaceError"
          /\ namespaces' = namespaces
          /\ taxonLabel' = taxonLabel
          /\ accessionLog' = accessionLog]_vars

\* require_taxon was refused by a frozen namespace that holds a taxon
C14_Witness ==
    /\ ret.op = "require_taxon" /\ ret.err = "ImmutableTaxonNamespaceError"
    /\ ~ namespaces[1].is_mutable
    /\ Len(namespaces[1].taxa) = 1
    /\ namespaces[1].current_accession_count = 2

\* the position of x in a list without repetitions
PositionIn(lst, x) == CHOOSE i \in 1..Len(lst) : lst[i] = x

\* C15: remove_taxon(t) of a registered taxon takes t out of the list, of both
\* index maps and of the bitmask cache, keeps the accession index, the memoised
\* bitmask and the relative list order of every other taxon, and leaves the
\* counter alone; remove_taxon(t) of an unregistered taxon raises an error and
\* changes nothing.
C15_RemoveTakesOutOnlyTheTaxon ==
    [][ret'.op = "remove_taxon" =>
        LET old == namespaces[1]
            new == namespaces'[1]
            t == ret'.arg
            others == DOMAIN old.taxon_accession_index_map \ {t} IN
        IF t \in DOMAIN old.taxon_accession_index_map
        THEN /\ ret'.err = NoError
             /\ Range(new.taxa) = Range(old.taxa) \ {t}
             /\ Len(new.taxa) = Len(old.taxa) - 1
             /\ \A i, j \in 1..Len(new.taxa) :
                    i < j => PositionIn(old.taxa, new.taxa[i])
                               < PositionIn(old.taxa, new.taxa[j])
             /\ DOMAIN new.taxon_accession_index_map = others
             /\ \A u \in others : new.taxon_accession_index_map[u]
                                      = old.taxon_accession_index_map[u]
             /\ DOMAIN new.accession_index_taxon_map
                    = {old.taxon_accession_index_map[u] : u \in others}
             /\ \A u \in others :
                    new.accession_index_taxon_map[old.taxon_accession_index_map[u]] = u
             /\ DOMAIN new.taxon_bitmask_map = DOMAIN old.taxon_bitmask_map \ {t}
             /\ \A u \in DOMAIN new.taxon_bitmask_map :
                    new.taxon_bitmask_map[u] = old.taxon_bitmask_map[u]
             /\ new.current_accession_count = old.current_accession_count
             /\ new.is_mutable = old.is_mutable
        ELSE /\ ret'.err = "ValueError"
             /\ new = old]_vars

\* the first of two registered taxa was removed; the other keeps index 1 and
\* its memoised bitmask
C15_Witness ==
    /\ ret.op = "remove_taxon" /\ ret.err = NoError
    /\ Len(namespaces[1].taxa) = 1
    /\ namespaces[1].taxon_accession_index_map[namespaces[1].taxa[1]] = 1
    /\ namespaces[1].taxa[1] \in DOMAIN namespaces[1].taxon_bitmask_map
    /\ namespaces[1].current_accession_count = 2

\* the list positions whose taxon carries a label equal to `label`: exactly
\* when case_sensitive, ignoring case otherwise
MatchingPositions(ns, label, case_sensitive) ==
    {i \in 1..Len(namespaces[ns].taxa) :
        LET l == taxonLabel[namespaces[ns].taxa[i]] IN
        IF case_sensitive THEN l = label ELSE lower(l) = lower(label)}

\* C16: get_taxon(label) returns the first taxon, in the current list order,
\* whose label equals label ignoring case (exactly, when case_sensitive is
\* true), returns None when there is none, and never modifies the namespace.
C16_GetTaxonFirstMatchIgnoringCase ==
    /\ [](ret.op = "get_taxon" =>
            LET m == MatchingPositions(ret.ns, ret.label, ret.case_sensitive) IN
            IF m = {} THEN ret.val = NoTaxon
            ELSE /\ ret.val = namespaces[ret.ns].taxa[CHOOSE i \in m : \A j \in m : i <= j]
                 /\ ret.err = NoError)
    /\ [][ret'.op = "get_taxon" =>
            /\ namespaces' = namespaces
            /\ taxonLabel' = taxonLabel]_vars

\* get_taxon("a") found the taxon labelled "A" that stands before the one
\* labelled "a"
C16_Witness ==
    /\ ret.op = "get_taxon" /\ ret.label = "a" /\ ~ ret.case_sensitive
    /\ Len(namespaces[1].taxa) = 2
    /\ ret.val = namespaces[1].taxa[1]
    /\ taxonLabel[namespaces[1].taxa[1]] = "A"
    /\ taxonLabel[namespaces[1].taxa[2]] = "a"

\* C17: require_taxon(label) is get-or-create. When a registered taxon
\* matches the label it returns the first such taxon and changes nothing; when
\* none matches and the namespace is mutable it registers exactly one new
\* taxon carrying that label, at the end of the list, and returns it. Two
\* successive calls (default, case-insensitive) with labels equal up to case
\* return the same Taxon, and the second adds nothing.
C17_RequireTaxonGetsOrCreates ==
    [][ret'.op = "require_taxon" =>
        LET old == namespaces[1]
            new == namespaces'[1]
            m == MatchingPositions(1, ret'.label, ret'.case_sensitive) IN
        /\ m # {} =>
              /\ ret'.err = NoError
              /\ ret'.val = old.taxa[CHOOSE i \in m : \A j \in m : i <= j]
              /\ new = old
              /\ taxonLabel' = taxonLabel
        /\ (m = {} /\ old.is_mutable) =>
              /\ ret'.err = NoError
              /\ ret'.val \notin Range(old.taxa)
              /\ ~ Created(ret'.val)
              /\ new.taxa = Append(old.taxa, ret'.val)
              /\ DOMAIN new.taxon_accession_index_map
                     = DOMAIN old.taxon_accession_index_map \cup {ret'.val}
              /\ new.current_accession_count = old.current_accession_count + 1
              /\ taxonLabel'[ret'.val] = ret'.label
              /\ \A t \in TaxonIds \ {ret'.val} : taxonLabel'[t] = taxonLabel[t]
        /\ (/\ ret.op = "require_taxon" /\ ret.err = NoError
            /\ ~ ret.case_sensitive /\ ~ ret'.case_sensitive
            /\ lower(ret.label) = lower(ret'.label)) =>
              /\ ret'.val = ret.val
              /\ new = old]_vars

\* require_taxon("a") returned the only registered taxon, labelled "A"
C17_Witness ==
    /\ ret.op = "require_taxon" /\ ret.label = "a" /\ ~ ret.case_sensitive
    /\ ret.err = NoError
    /\ namespaces[1].taxa = << ret.val >>
    /\ taxonLabel[ret.val] = "A"

\* the taxa of S in increasing accession-index order
ByAccessionIndex(self, S) ==
    CHOOSE q \in Orders(S) :
        \A i, j \in 1..Len(q) :
            i < j => self.taxon_accession_index_map[q[i]]
                       < self.taxon_accession_index_map[q[j]]

\* C18: for every set S of currently registered taxa, handed over in any
\* order, bitmask_taxa_list(taxa_bitmask(taxa=S)) is the taxa of S, each once,
\* in increasing accession-index order; and with a start index k the lowest
\* bit stands for accession index k: the mask shifted right by k and read
\* from k gives the taxa of S whose index is at least k. Every
\* bitmask_taxa_list call that succeeded returned, in increasing index order,
\* the taxa whose index i >= index has bit i - index set.
C18_BitmaskRoundTrip ==
    /\ \A S \in SUBSET DOMAIN namespaces[1].taxon_accession_index_map :
         \A taxa \in Orders(S) :
            LET b == taxa_bitmask(namespaces[1], taxa) IN
            /\ b.err = NoError
            /\ bitmask_taxa_list(b.self, b.val, 0)
                  = [err |-> NoError, val |-> ByAccessionIndex(namespaces[1], S)]
            /\ \A k \in 0..MaxAccessions :
                  bitmask_taxa_list(b.self, b.val \div Shl1(k), k)
                    = [err |-> NoError,
                       val |-> ByAccessionIndex(namespaces[1],
                                 {t \in S : namespaces[1].taxon_accession_index_map[t] >= k})]
    /\ (ret.op = "bitmask_taxa_list" /\ ret.err = NoError) =>
         LET self == namespaces[ret.ns]
             S == {t \in DOMAIN self.taxon_accession_index_map :
                     LET i == self.taxon_accession_index_map[t] IN
                     /\ i >= ret.index
                     /\ (ret.arg \div Shl1(i - ret.index)) % 2 = 1} IN
         ret.taxa = ByAccessionIndex(self, S)

\* after a removal and a re-registration the mask 6 of the two registered
\* taxa (both bitmasks memoised) was read back as the taxa with accession
\* indices 1 and 2
C18_Witness ==
    /\ ret.op = "bitmask_taxa_list" /\ ret.err = NoError
    /\ ret.arg = 6 /\ ret.index = 0
    /\ Len(ret.taxa) = 2
    /\ namespaces[1].taxa = ret.taxa
    /\ namespaces[1].taxon_accession_index_map[ret.taxa[1]] = 1
    /\ DOMAIN namespaces[1].taxon_bitmask_map = Range(ret.taxa)

\* C19: once namespace 2 is built as TaxonNamespace(namespace 1), adding a
\* taxon to, or removing one from, either namespace leaves the other's list
\* (membership and order), both index maps, bitmask cache and accession
\* counter as they were.
C19_CopyIsIndependent ==
    [][(/\ 2 \in constructed
        /\ ret'.op \in {"add_taxon", "remove_taxon"})
       => \A n \in NSIds \ {ret'.ns} : namespaces'[n] = namespaces[n]]_vars

\* a taxon was added to the copy only
C19_Witness ==
    /\ 2 \in constructed
    /\ ret.op = "add_taxon" /\ ret.ns = 2 /\ ret.err = NoError
    /\ Len(namespaces[2].taxa) = 2
    /\ Len(namespaces[1].taxa) = 1
    /\ DOMAIN namespaces[1].taxon_bitmask_map # {}

\* C20: after a parse without error every <meta> element has exactly one
\* Annotation object; the annotation of an element lying directly in the
\* annotated element belongs to the host, and the annotation of an element
\* nested in another <meta> element belongs to the annotation made for that
\* enclosing element, at every depth: the host owns no annotation of a nested
\* element.
C20_NestedMetaBelongsToEnclosingAnnotation ==
    (mpc = "parsed" /\ metaError = NoMetaError) =>
        /\ Len(annotations) = nxmeta.n
        /\ \A e \in 1..nxmeta.n :
              \E x \in 1..Len(annotations) :
                 /\ annotations[x].elem = e
                 /\ \A y \in 1..Len(annotations) : annotations[y].elem = e => y = x
                 /\ IF nxmeta.parent[e] = 0
                    THEN annotations[x].owner = 0
                    ELSE /\ annotations[x].owner # 0
                         /\ annotations[annotations[x].owner].elem = nxmeta.parent[e]

\* a <meta> element nested two levels deep was parsed
C20_Witness ==
    /\ mpc = "parsed" /\ metaError = NoMetaError
    /\ \E e \in 1..nxmeta.n :
          /\ nxmeta.parent[e] # 0
          /\ nxmeta.parent[nxmeta.parent[e]] # 0
          /\ \E x \in 1..Len(annotations) :
                annotations[x].elem = e /\ annotations[x].owner # 0

\* C21: after NexmlWriter.write, the (prefix, namespace) pair of every
\* annotation that was written, top-level or nested in another annotation,
\* is declared on the document root element.
C21_WrittenPrefixesDeclaredAtRoot ==
    mpc = "written" =>
        \A w \in 1..Len(written_meta) :
            << annotations[written_meta[w].ann].name_prefix,
               annotations[written_meta[w].ann].namespace >> \in root_namespaces

\* C27: every <meta> element is written back with the kind it was parsed
\* from: a resource element as a resource element with the same rel and
\* href, a literal element as a literal element with the same property and
\* content.
C27_MetaKindSurvivesRoundTrip ==
    mpc = "written" =>
        \A w \in 1..Len(written_meta) :
            LET in == nxmeta.attrib[annotations[written_meta[w].ann].elem]
                out == written_meta[w].attrib IN
            /\ out.type = in.type
            /\ out.rel = in.rel /\ out.href = in.href
            /\ out.property = in.property /\ out.content = in.content

\* C29: the registry of a namespace is consistent after every operation:
\* the taxon list has no duplicates, the listed taxa are the keys of the
\* taxon-to-index map (len and membership agree), the index-to-taxon map is
\* the inverse of the taxon-to-index map, every cached bitmask belongs to a
\* registered taxon, and every assigned index is below the accession counter.
C29_RegistryConsistent ==
    Live(1) =>
        LET self == namespaces[1]
            index == self.taxon_accession_index_map
            taxon == self.accession_index_taxon_map IN
        /\ \A i, j \in DOMAIN self.taxa : i # j => self.taxa[i] # self.taxa[j]
        /\ Range(self.taxa) = DOMAIN index
        /\ Len(self.taxa) = Cardinality(DOMAIN index)
        /\ DOMAIN taxon = {index[t] : t \in DOMAIN index}
        /\ \A t \in DOMAIN index : taxon[index[t]] = t
        /\ \A i \in DOMAIN taxon : index[taxon[i]] = i
        /\ DOMAIN self.taxon_bitmask_map \subseteq DOMAIN index
        /\ \A t \in DOMAIN index : index[t] < self.current_accession_count

\* remove_taxon_label has removed a taxon, and a registered taxon with a
\* cached bitmask remains
C29_Witness ==
    /\ ret.op = "remove_taxon_label" /\ ret.err = NoError
    /\ namespaces[1].taxa # << >>
    /\ namespaces[1].taxon_bitmask_map # EmptyMap
    /\ namespaces[1].current_accession_count > Len(namespaces[1].taxa)

\* the taxa of the two calls that the index-to-taxon map still holds
KeptByIndex ==
    {targ[t] : t \in Threads}
        \cap {shared.accession_index_taxon_map[i] :
                 i \in DOMAIN shared.accession_index_taxon_map}

C11_AllTaxaBitmaskSpansAssigned ==
    /\ [](ret.op = "all_taxa_bitmask" =>
            /\ ret.val = Shl1(Len(accessionLog[ret.ns])) - 1
            /\ \A t \in DOMAIN namespaces[ret.ns].taxon_accession_index_map :
                   Shl1(namespaces[ret.ns].taxon_accession_index_map[t]) <= ret.val)
    /\ [][all_taxa_bitmask(namespaces'[1]) >= all_taxa_bitmask(namespaces[1])]_vars

\* the mask is asked for after two registrations and a removal
C11_Witness ==
    /\ ret.op = "all_taxa_bitmask" /\ ret.val = 3
    /\ Len(accessionLog[1]) = 2
    /\ Len(namespaces[1].taxa) = 1

(***************************************************************************)
(* Membership across namespaces (SpecShared)                               *)
(***************************************************************************)
\* C3: a Taxon object is registered in the membership map of at most one
\* TaxonNamespace at any time.
C3_TaxonInAtMostOneNamespace ==
    \A t \in TaxonIds :
        Cardinality({ns \in constructed : Contains(namespaces[ns], t)}) <= 1

(***************************************************************************)
(* Properties of the tree build (SpecTree)                                 *)
(***************************************************************************)
\* nodes reached from the set S over at most `fuel` parent-to-child links
RECURSIVE ReachFrom(_, _, _)
ReachFrom(nds, S, fuel) ==
    IF fuel = 0 THEN S
    ELSE ReachFrom(nds, S \cup UNION {Range(nds[p].child_nodes) : p \in S}, fuel - 1)

\* the entries of child lists that hold node c
ParentLinks(nds, c) ==
    {pi \in UNION {{<< p, i >> : i \in DOMAIN nds[p].child_nodes} : p \in DOMAIN nds} :
        nds[pi[1]].child_nodes[pi[2]] = c}

\* node records that no edge record names as its target
NeverTarget ==
    {n \in 1..nodeCount : \A k \in DOMAIN edgeRecords : edgeRecords[k].target # n}

\* targets of the edge records k.. that leave node n, in document order
RECURSIVE OutTargets(_, _)
OutTargets(n, k) ==
    IF k > Len(edgeRecords) THEN << >>
    ELSE IF edgeRecords[k].source = n
    THEN << edgeRecords[k].target >> \o OutTargets(n, k + 1)
    ELSE OutTargets(n, k + 1)

\* ids named by edge record k that no node record carries
UnresolvedIds(k) ==
    {edgeRecords[k].source, edgeRecords[k].target} \ ({0} \cup (1..nodeCount))

\* every edge record has source and target, both name node records, and they
\* differ
EdgesSound ==
    \A k \in DOMAIN edgeRecords :
        /\ edgeRecords[k].source \in 1..nodeCount
        /\ edgeRecords[k].target \in 1..nodeCount
        /\ edgeRecords[k].source # edgeRecords[k].target

\* C4: every tree the build returns is a rooted tree over its node records:
\* exactly one parentless node (the root), every node record reachable from
\* the root over child links, no node held by more than one child list, and
\* no node among its own descendants.
C4_YieldedTreeIsRooted ==
    pc = "done" =>
        LET tn == NodeKeys(nodes) \cup {seed_node} IN
        /\ {n \in tn : nodes[n].parent_node = NoNode} = {seed_node}
        /\ NodeKeys(nodes) \subseteq ReachFrom(nodes, {seed_node}, MaxNodes + 1)
        /\ \A c \in tn : Cardinality(ParentLinks(nodes, c)) <= 1
        /\ \A n \in tn :
              n \notin ReachFrom(nodes, Range(nodes[n].child_nodes), MaxNodes + 1)

\* C5: when exactly one node record is never an edge target, the finished
\* tree has that node as root and every node's children are the targets of
\* its outgoing edges in the order the edges were declared.
C5_RootAndChildrenInDeclaredOrder ==
    (pc = "done" /\ Cardinality(NeverTarget) = 1) =>
        /\ seed_node \in NeverTarget
        /\ \A n \in 1..nodeCount : nodes[n].child_nodes = OutTargets(n, 1)

\* C6: when every node record is the target of some edge, no tree is yielded
\* or appended, and the build of records that are sound apart from that
\* ends with the 'tree must be acyclic' error.
C6_NoParentlessNodeIsAcyclicError ==
    /\ (pc \in {"root", "done"} \/ yielded # << >> \/ tree_list # << >>)
          => NeverTarget # {}
    /\ (pc = "failed" /\ EdgesSound /\ NeverTarget = {})
          => /\ treeError.kind = "acyclic"
             /\ yielded = << >>
             /\ tree_list = << >>

\* the build of nodes 1, 2 with edges 1 -> 2 and 2 -> 1 has failed
C6_Witness ==
    /\ pc = "failed"
    /\ nodeCount = 2
    /\ edgeRecords = << [source |-> 1, target |-> 2], [source |-> 2, target |-> 1] >>
    /\ attached = {1, 2}
    /\ treeError.kind = "acyclic"

\* C7: when the edge the build stopped at names a source or target that no
\* node record carries, the error identifies that edge and the unresolved
\* id and nothing is yielded or appended; and no build gets past an edge
\* with an unresolved end.
C7_UnresolvedEndIsNamed ==
    /\ \A k \in DOMAIN edgeRecords :
          (pc = "failed" /\ edge = k /\ UnresolvedIds(k) # {})
              => /\ treeError.kind \in {"undefined_source", "undefined_target"}
                 /\ treeError.edge = k
                 /\ treeError.node \in UnresolvedIds(k)
                 /\ yielded = << >>
                 /\ tree_list = << >>
    /\ pc \in {"root", "done"} => \A k \in DOMAIN edgeRecords : UnresolvedIds(k) = {}

\* edge records with a target that names a node record and no source
Sourceless ==
    {k \in DOMAIN edgeRecords :
        edgeRecords[k].source = 0 /\ edgeRecords[k].target \in 1..nodeCount}

\* C22: an edge record with a target id and no source id is accepted: the
\* build does not reject the record for its missing source, and once the
\* record is attached its target node has the edge and still no parent
\* from it.
C22_SourcelessEdgeIsAccepted ==
    \A k \in Sourceless :
        /\ ~(pc = "failed" /\ treeError.kind = "no_source" /\ treeError.edge = k)
        /\ (edge = k /\ k \in attached /\ pc = "attach")
              => /\ nodes[edgeRecords[k].target].edge = k
                 /\ edgeRecords[k].target \notin
                       UNION {Range(nodes[p].child_nodes) : p \in DOMAIN nodes}
                          \ UNION {{edgeRecords[j].target} : j \in attached \ {k}}

\* edge records whose source and target name one and the same node record
SelfLoops ==
    {k \in DOMAIN edgeRecords :
        edgeRecords[k].source = edgeRecords[k].target
            /\ edgeRecords[k].source \in 1..nodeCount}

\* every edge record other than the self-loops has a source and a target,
\* both naming node records
OtherEdgesSound ==
    \A k \in (DOMAIN edgeRecords) \ SelfLoops :
        /\ edgeRecords[k].source \in 1..nodeCount
        /\ edgeRecords[k].target \in 1..nodeCount

C24_AmbiguousRootIsDefinedError ==
    (/\ EdgesSound /\ Cardinality(NeverTarget) > 1
     /\ \A i \in 1..nodeCount : nodeOtus[i] = NoOtu
     /\ pc \in {"root", "done", "failed"})
        => /\ pc = "failed"
           /\ treeError.kind = "ambiguous_root"
           /\ \A n \in NodeKeys(nodes) :
                 nodes[n].parent_node \in NodeKeys(nodes) \cup {NoNode}

\* C25: a <rootedge> whose target names no node record makes the build fail
\* without a tree; a <rootedge> whose target resolves is the edge of that
\* node in the finished tree; without a <rootedge> the root of the finished
\* tree has no edge.
C25_RootEdgeAttachedOrRootBare ==
    /\ (rootedge.present /\ rootedge.target \notin 1..nodeCount)
          => /\ pc = "failed"
             /\ treeError # NoTreeError
             /\ yielded = << >> /\ tree_list = << >>
    /\ (pc = "done" /\ rootedge.present)
          => nodes[rootedge.target].edge = RootEdge
    /\ (pc = "done" /\ ~rootedge.present)
          => nodes[seed_node].edge = EdgeNone

\* the tree of nodes 1, 2 with the edge 1 -> 2 and a <rootedge> on node 1 is
\* finished, and the root carries the root edge
C25_Witness ==
    /\ pc = "done"
    /\ nodeCount = 2
    /\ edgeRecords = << [source |-> 1, target |-> 2] >>
    /\ rootedge = [present |-> TRUE, target |-> 1]
    /\ seed_node = 1
    /\ nodes[1].edge = RootEdge

\* C26: the first node record with a taxon id that the taxa block does not
\* define ends the build with the taxon-not-defined error for that node
\* record; no taxon is created and no tree is built.
C26_UndefinedTaxonIsNamedError ==
    \A i \in 1..nodeCount :
        (nodeOtus[i] = UndefinedOtu /\ \A j \in 1..(i - 1) : nodeOtus[j] = NoOtu)
            => /\ pc = "failed"
               /\ treeError.kind = "taxon_not_defined"
               /\ treeError.node = i

(***************************************************************************)
(* Properties of the sequence rows of a characters block (SpecSeq)         *)
(***************************************************************************)
\* the first position of the symbols at which the column's alphabet does not
\* hold the symbol, among the declared columns; 0 when there is none
FirstUnknown(seq, types) ==
    LET bad == {i \in 1..Len(seq) :
                   i <= Len(types) /\ seq[i] \notin symbol_state_map(types[i])}
    IN IF bad = {} THEN 0 ELSE CHOOSE i \in bad : \A j \in bad : i <= j

PolymorphicWith(alphabet, oid, members) ==
    \E i \in DOMAIN alphabet :
        /\ alphabet[i].oid = oid
        /\ alphabet[i].multistate = "POLYMORPHIC"
        /\ alphabet[i].member_states = members

\* C10: a polymorphic state set whose children are member references is
\* parsed into a POLYMORPHIC element whose member list is those references in
\* document order (members s1 then s2 give [s1, s2]); and writing the parsed
\* alphabet and parsing the output succeeds and gives every POLYMORPHIC
\* element the same ordered member list.
C10_PolymorphicMembersInOrder ==
    /\ apc \in {"parsed", "written", "reparsed"} =>
          \A k \in DOMAIN nxstates :
              (/\ nxstates[k].tag = "polymorphic_state_set"
               /\ \A j \in DOMAIN nxstates[k].children :
                      nxstates[k].children[j].tag = "member")
              => PolymorphicWith(state_alphabet, nxstates[k].id,
                                 [j \in DOMAIN nxstates[k].children |->
                                     nxstates[k].children[j].state])
    /\ apc = "reparsed" =>
          \A i \in DOMAIN state_alphabet :
              state_alphabet[i].multistate = "POLYMORPHIC"
              => PolymorphicWith(reparsed_alphabet, state_alphabet[i].oid,
                                 state_alphabet[i].member_states)
    /\ apc = "failed" => state_alphabet_parts = << >>

\* the set with members 1 then 2 has been parsed, written and parsed again
C10_Witness ==
    /\ apc = "reparsed"
    /\ \E k \in DOMAIN nxstates :
          /\ nxstates[k].tag = "polymorphic_state_set"
          /\ nxstates[k].children = << MemberElem(1), MemberElem(2) >>
    /\ PolymorphicWith(state_alphabet, 4, << 1, 2 >>)
    /\ PolymorphicWith(reparsed_alphabet, 4, << 1, 2 >>)
    /\ state_alphabet_parts[3].tag = "polymorphic_state_set"


(***************************************************************************)
(* Properties of the character matrix (SpecChars)                          *)
(***************************************************************************)
\* C8: a DNA matrix written in sequence markup or in cell markup and parsed
\* again gives a matrix with the same taxa and, for every taxon, the same
\* cell values in the same column positions.
C8_MatrixRoundTrip ==
    (source = "writer" /\ cpc \in {"done", "failed"}) =>
        /\ cpc = "done"
        /\ char_matrix.taxon_seq_map = original.taxon_seq_map

====
